---- MODULE Spec2Model ----
(***************************************************************************)
(* Model of iris-devtester's credential repair, reset_password             *)
(* (src/iris_devtester/utils/password_reset.py): the container check, the  *)
(* primary Security.Users.Modify command, the verification retry loop      *)
(* with backoff, the ChangePassword fallback and the exception handlers.   *)
(* Time is in milliseconds.  Container names are sequences of characters   *)
(* so that Python's substring test `name in stdout` is modelled as such.   *)
(***************************************************************************)
EXTENDS Integers, Sequences, FiniteSets, TLC

\* ------------------------------------------------------------------ bounds
\* largest max_retries a VerificationConfig of the model carries
MaxRetriesBound == 5

\* timeout budgets (timeout_ms), initial backoffs and probe durations tried
TimeoutBudgets == {0, 300, 1000}
InitialBackoffs == {100}
ProbeDurations == {0, 300}
CommandDurations == {0, 200}

\* largest max_retries handed to reset_password_if_needed
MaxResetRetries == 2
MaxDatLen == 2

\* ----------------------------------------------------------------- helpers
RECURSIVE Pow2(_)
Pow2(n) == IF n <= 0 THEN 1 ELSE 2 * Pow2(n - 1)

\* Python `s in t` on strings
IsSubstring(s, t) ==
    \E i \in 0..(Len(t) - Len(s)) : SubSeq(t, i + 1, i + Len(s)) = s

db == <<"d", "b">>
db2 == <<"d", "b", "2">>
ContainerNames == {db, db2}

\* reset_password arguments that the model keeps fixed
username == "_SYSTEM"
new_password == "SYS"
hostname == "localhost"
port == 1972
Passwords == {"old", new_password}

\* ---------------------------------------------------- VerificationConfig
VerificationConfigs ==
    [max_retries : 1..MaxRetriesBound,
     timeout_ms : TimeoutBudgets,
     initial_backoff_ms : InitialBackoffs,
     exponential_backoff : BOOLEAN]

calculate_backoff_ms(config, index) ==
    IF config.exponential_backoff
    THEN config.initial_backoff_ms * Pow2(index)
    ELSE config.initial_backoff_ms

\* ------------------------------------------- verify_password_via_connection
ErrorTypes == {"access_denied", "connection_refused", "timeout"}

\* the error message of the probe made as attempt n with classification t
ProbeMessage(t, n) == <<t, n>>

\* what one probe can hand back: a VerificationResult, or an exception
VerificationResults(attempt_number) ==
    {[success |-> TRUE, error_type |-> "none", error_message |-> <<>>,
      is_retryable |-> FALSE, attempt_number |-> attempt_number]}
    \cup
    {[success |-> FALSE, error_type |-> t,
      error_message |-> ProbeMessage(t, attempt_number),
      is_retryable |-> r, attempt_number |-> attempt_number] :
        t \in ErrorTypes, r \in BOOLEAN}

\* the log entry of a probe that raised instead of returning
ProbeRaised(attempt_number) ==
    [success |-> FALSE, error_type |-> "raised", error_message |-> <<>>,
     is_retryable |-> FALSE, attempt_number |-> attempt_number]

\* --------------------------------------------------- the service's accounts
NoAccount ==
    [exists |-> FALSE, Password |-> "none",
     ChangePassword |-> FALSE, PasswordNeverExpires |-> FALSE]

AccountStates ==
    {NoAccount} \cup
    [exists : {TRUE}, Password : Passwords,
     ChangePassword : BOOLEAN, PasswordNeverExpires : BOOLEAN]

\* the primary ObjectScript: Get, set Password, set PasswordNeverExpires=1,
\* write Modify(...) -- Modify saves the properties of an existing user and
\* writes 1; for a user that does not exist it writes an error status
ModifyScript(acct, pw) ==
    IF acct.exists
    THEN [account |-> [acct EXCEPT !.Password = pw,
                                   !.PasswordNeverExpires = TRUE],
          returncode |-> 0, stdout |-> {"1"}]
    ELSE [account |-> acct, returncode |-> 0, stdout |-> {"0"}]

\* the fallback: ChangePassword(username, new_password)
ChangePasswordScript(acct, pw) ==
    IF acct.exists
    THEN [account |-> [acct EXCEPT !.Password = pw],
          returncode |-> 0, stdout |-> {"1"}]
    ELSE [account |-> acct, returncode |-> 0, stdout |-> {"0"}]

\* the fallback's second command: Get, set PasswordNeverExpires=1, Modify
NeverExpiresScript(acct) ==
    IF acct.exists
    THEN [account |-> [acct EXCEPT !.PasswordNeverExpires = TRUE],
          returncode |-> 0, stdout |-> {"1"}]
    ELSE [account |-> acct, returncode |-> 0, stdout |-> {"0"}]

\* docker exec that could not run the command in the container
ExecFailed(acct) == [account |-> acct, returncode |-> 1, stdout |-> {}]

\* ------------------------------------------------------ container runtime
\* docker ps --filter name=<name> --format {{.Names}}: the running
\* containers whose name matches
DockerPs(run, name) == {n \in run : IsSubstring(name, n)}

\* `container_name in result.stdout`
InStdout_always(name, listing) == TRUE
InStdout(name, listing) == \E n \in listing : IsSubstring(name, n)

\* the log entry of one subprocess.run call
Ran(cmd, outcome, proc) ==
    [cmd |-> cmd, outcome |-> outcome,
     returncode |-> proc.returncode, stdout |-> proc.stdout]
RunRaised(cmd, kind) ==
    [cmd |-> cmd, outcome |-> kind, returncode |-> -1, stdout |-> {}]

\* what subprocess.run can do
Raised == {"TimeoutExpired", "FileNotFoundError", "Exception"}
RunOutcomes == {"completed"} \cup Raised
ExecOutcomes(run, name) ==
    (IF name \in run THEN {"ran"} ELSE {}) \cup {"exec_failed"} \cup Raised

\* ------------------------------------------------------------------- state
VARIABLES
    pc,                 \* position inside reset_password
    container_name,     \* argument
    verification_config,\* argument
    running,            \* containers the runtime is running
    account,            \* the service's record of `username`
    ps_stdout,          \* stdout of the docker ps command
    now,                \* time.time(), ms
    start_time,         \* local of reset_password
    attempt,            \* loop variable
    last_error_type,    \* local
    last_error_message, \* local
    result,             \* the PasswordResetResult returned
    caught,             \* the exception an except clause caught, or "none"
    cmds,               \* commands handed to subprocess.run, in order
    probe_log,          \* outcome class of every probe made, in order
    sleeps              \* argument (ms) of every time.sleep, in order

\* reset_password_if_needed, the caller of reset_password
VARIABLES
    caller_pc,          \* position inside reset_password_if_needed, or
                        \* "direct" when reset_password is called directly
    error_msg,          \* str(error), as a sequence of words
    max_retries,        \* argument of reset_password_if_needed
    reset_attempt,      \* its loop variable `attempt`
    reset_calls,        \* success flag of every reset_password call made
    retry_sleeps,       \* number of time.sleep(3) calls
    returned            \* what reset_password_if_needed returned

\* the fixture directory, the service and the locals of the fixture
\* loader, the fixture creator and the pytest plugin
VARIABLES
    fixture_dir,        \* the fixture directory: its files and their content
    namespaces,         \* the namespaces the service holds
    sql_log,            \* ghost: the commands sent to the service, with replies
    ld_pc,              \* position in load_fixture / cleanup_fixture
    validate_checksum,  \* load_fixture's argument
    target_namespace,   \* load_fixture's argument (<<>> is None)
    manifest,           \* load_fixture's local, <<>> while unset
    namespace,          \* load_fixture's local
    tables_loaded,      \* load_fixture's local
    load_outcome,       \* what load_fixture returned or raised
    cr_pc,              \* position in create_fixture / refresh_fixture
    cr_locals,          \* the creator's locals (tables, checksum, manifest)
    cr_outcome,         \* what the creator's call returned or raised
    dir_before,         \* ghost: fixture_dir when the creator's call began
    pl_pc,              \* position in the plugin's hooks
    items,              \* the (worker id, node id) of the tests to run
    item,               \* index of the test the hooks run for
    loaded_fixtures,    \* _loaded_fixtures
    restored,           \* ghost: namespaces restored by setup, per test
    warned,             \* ghost: tests whose teardown issued a warning
    derived             \* ghost: the namespaces setup derived, in test order

\* the thresholds under validation
VARIABLES
    th_pc,              \* position in validate()
    thresholds,         \* the ResourceThresholds instance
    validation_error    \* the ValueError message raised, <<>> if none

\* an IRISContainer and the calls of its get_connection
VARIABLES
    gc_pc,              \* position inside IRISContainer.get_connection
    connection,         \* self._connection, 0 is None
    callin_enabled,     \* self._callin_enabled
    self_config,        \* self._config
    mapped,             \* the host and the mapped port the container has
    enable_callin,      \* get_connection's argument
    original,           \* the exception the first attempt raised, <<>> if none
    gc_outcome,         \* what the call returned or raised
    gc_calls,           \* number of get_connection calls begun
    gc_log              \* ghost: connection attempts, CallIn commands and
                        \* remediations of the call in progress, in order

callerVars == <<caller_pc, error_msg, max_retries, reset_attempt,
                reset_calls, retry_sleeps, returned>>

resetVars == <<pc, container_name, verification_config, running, account,
               ps_stdout, now, start_time, attempt, last_error_type,
               last_error_message, result, caught, cmds, probe_log, sleeps>>

fixtureVars == <<fixture_dir, namespaces, sql_log, ld_pc, validate_checksum,
                 target_namespace, manifest, namespace, tables_loaded,
                 load_outcome, cr_pc, cr_locals, cr_outcome, dir_before,
                 pl_pc, items, item, loaded_fixtures, restored, warned, derived>>

thresholdVars == <<th_pc, thresholds, validation_error>>

containerVars == <<gc_pc, connection, callin_enabled, self_config, mapped,
                  enable_callin, original, gc_outcome, gc_calls, gc_log>>

vars == <<resetVars, callerVars, fixtureVars, thresholdVars, containerVars>>

NoResult == [success |-> FALSE, message |-> "none", detail |-> <<>>,
             verification_attempts |-> 0, elapsed_seconds |-> 0,
             error_type |-> "none"]

\* PasswordResetResult(...): fields not passed keep their defaults
PasswordResetResult(success, message, detail, attempts, elapsed, etype) ==
    [success |-> success, message |-> message, detail |-> detail,
     verification_attempts |-> attempts, elapsed_seconds |-> elapsed,
     error_type |-> etype]


\* ------------------------------------------------- results, one per return
\* lines 119-135: the container is not in the listing
NotRunningResult ==
    PasswordResetResult(FALSE, "Container not running", <<>>, 0, 0,
                        "connection_refused")

\* line 199: the budget check at the top of an iteration
TimedOut_strictly_greater(elapsed, config) == elapsed > config.timeout_ms
TimedOut(elapsed, config) == elapsed >= config.timeout_ms

\* lines 201-209
VerificationTimeoutResult_attempt(att, elapsed) ==
    PasswordResetResult(FALSE, "Password verification timed out", <<>>,
                        att, elapsed, "timeout")
VerificationTimeoutResult(att, elapsed) ==
    PasswordResetResult(FALSE, "Password verification timed out", <<>>,
                        att - 1, elapsed, "timeout")

\* lines 229-237
SuccessResult_attempt_plus_one(att, elapsed) ==
    PasswordResetResult(TRUE, "Password reset successful", <<>>,
                        att + 1, elapsed, "none")
SuccessResult(att, elapsed) ==
    PasswordResetResult(TRUE, "Password reset successful", <<>>,
                        att, elapsed, "none")

\* line 244: fail fast on a non-retryable classification
FailFast_never(verification_result) == FALSE
FailFast(verification_result) == ~verification_result.is_retryable

\* lines 250-258
NonRetryableResult(att, elapsed, etype, emsg) ==
    PasswordResetResult(FALSE,
                        "Password verification failed (non-retryable)",
                        emsg, att, elapsed, etype)

\* line 261: sleep only when another attempt follows
MoreAttemptsRemain_inclusive(att, config) == att <= config.max_retries
MoreAttemptsRemain(att, config) == att < config.max_retries

\* line 262: the backoff index of the sleep that follows attempt att
BackoffIndex_attempt(att) == att
BackoffIndex(att) == att - 1

\* lines 276-285
ExhaustedResult_unknown(config, elapsed, etype, emsg) ==
    PasswordResetResult(FALSE, "Password verification failed after attempts",
                        emsg, config.max_retries, elapsed, "unknown")
ExhaustedResult(config, elapsed, etype, emsg) ==
    PasswordResetResult(FALSE, "Password verification failed after attempts",
                        emsg, config.max_retries, elapsed, etype)

\* line 182: returncode 0 and "1" in the output
PrimarySucceeded_returncode_only(proc) == proc.returncode = 0
PrimarySucceeded(proc) == proc.returncode = 0 /\ "1" \in proc.stdout

\* line 310
AltSucceeded(proc) == proc.returncode = 0

\* lines 349-357
AltSuccessResult(verification_result, elapsed) ==
    PasswordResetResult(TRUE,
                        "Password reset successful (via ChangePassword)",
                        <<>>, verification_result.attempt_number, elapsed,
                        "none")

\* lines 363-372
AltVerificationFailedResult(verification_result, elapsed) ==
    PasswordResetResult(FALSE,
                        "Password reset succeeded but verification failed",
                        verification_result.error_message,
                        verification_result.attempt_number, elapsed,
                        verification_result.error_type)

\* lines 375-388
BothFailedResult ==
    PasswordResetResult(FALSE, "Password reset failed", <<>>, 0, 0,
                        "verification_failed")

\* lines 390-407
TimeoutExpiredResult ==
    PasswordResetResult(FALSE, "Password reset timed out", <<>>, 0, 0,
                        "timeout")

\* lines 428-440
ExceptionResult ==
    PasswordResetResult(FALSE, "Password reset failed: str(e)", <<>>, 0, 0,
                        "unknown")

\* lines 409-426
FileNotFoundResult_as_exception == ExceptionResult
FileNotFoundResult ==
    PasswordResetResult(FALSE, "Docker command not found", <<>>, 0, 0,
                        "unknown")

\* the except clauses of the try statement, in order; TimeoutExpired and
\* FileNotFoundError are subclasses of Exception
ExceptClauses == <<"TimeoutExpired", "FileNotFoundError", "Exception">>
Catches(clause, kind) == clause = kind \/ clause = "Exception"

HandlerFor_no_generic_clause(kind) ==
    IF kind \in {"TimeoutExpired", "FileNotFoundError"} THEN kind ELSE "none"
HandlerFor(kind) ==
    IF \E i \in 1..Len(ExceptClauses) : Catches(ExceptClauses[i], kind)
    THEN LET i == CHOOSE j \in 1..Len(ExceptClauses) :
                    /\ Catches(ExceptClauses[j], kind)
                    /\ \A k \in 1..(j - 1) : ~Catches(ExceptClauses[k], kind)
         IN ExceptClauses[i]
    ELSE "none"

HandlerResult(clause) ==
    CASE clause = "TimeoutExpired" -> TimeoutExpiredResult
      [] clause = "FileNotFoundError" -> FileNotFoundResult
      [] OTHER -> ExceptionResult


\* -------------------------------------------------------------------- Init
\* the state when reset_password is entered
\* no reset_password_if_needed call is in progress
\* ------------------------------------------------ fixtures: the data
\* names of namespaces are strings of characters; <<>> stands for None
SRC == <<"S", "R", "C">>
TEST_NS == <<"T", "E", "S", "T", "_", "N", "S">>

\* a snapshot file is a sequence of bytes
Bytes == {0, 1}

DatContents == UNION {[1..n -> Bytes] : n \in 1..MaxDatLen}

\* FixtureValidator.calculate_sha256: the tagged digest of a file's bytes;
\* the digest is computed from every byte and differs for different files
RECURSIVE Digest(_)
Digest(bytes) ==
    IF bytes = <<>> THEN 1
    ELSE 2 * Digest(SubSeq(bytes, 1, Len(bytes) - 1)) + bytes[Len(bytes)]

calculate_sha256(bytes) == <<"sha256:", Digest(bytes)>>

\* creator.py lines 305-323
calculate_checksum_of_nothing(bytes) == calculate_sha256(<<>>)
calculate_checksum(bytes) == calculate_sha256(bytes)

TableInfo(name, row_count) == [name |-> name, row_count |-> row_count]

TableLists ==
    {<<>>,
     <<TableInfo("RAG.Entities", 2)>>,
     <<TableInfo("RAG.Entities", 2), TableInfo("RAG.Edges", 0)>>}

FixtureManifest(ns, checksum, tables, iris_version, created_at) ==
    [namespace |-> ns, dat_file |-> "IRIS.DAT", checksum |-> checksum,
     tables |-> tables, iris_version |-> iris_version,
     created_at |-> created_at]

\* what a write of manifest.json leaves behind when it fails part-way
TruncatedManifest == FixtureManifest(<<>>, <<>>, <<>>, "", 0)

\* the manifests found in a fixture directory
Manifests ==
    {FixtureManifest(SRC, calculate_sha256(c), t, "2024.1", 0) :
        c \in DatContents, t \in TableLists}

\* a path that does not exist
NoDirectory ==
    [exists |-> FALSE, manifest |-> <<>>, backup |-> <<>>, dat |-> <<>>]

\* the directory after mkdir
EmptyDirectory ==
    [exists |-> TRUE, manifest |-> <<>>, backup |-> <<>>, dat |-> <<>>]

\* the fixture directories a call can find: a file is <<>> when it is
\* missing and <<content>> when it is there
FixtureDirectories ==
    {NoDirectory}
    \cup [exists : {TRUE},
          manifest : {<<>>} \cup {<<m>> : m \in Manifests},
          backup : {<<>>},
          dat : {<<>>} \cup {<<c>> : c \in DatContents}]

NoLoadOutcome ==
    [kind |-> "none", success |-> FALSE, namespace |-> <<>>,
     tables_loaded |-> <<>>]

NoLocals ==
    [op |-> "none", created |-> FALSE, backed_up |-> FALSE,
     failed |-> "none",
     iris_version |-> "", tables |-> <<>>, checksum |-> <<>>,
     manifest |-> <<>>]

\* the loader, the creator and the plugin at rest
FixturesIdle ==
    /\ fixture_dir = NoDirectory
    /\ namespaces = {}
    /\ sql_log = <<>>
    /\ ld_pc = "idle"
    /\ validate_checksum = TRUE
    /\ target_namespace = <<>>
    /\ manifest = <<>>
    /\ namespace = <<>>
    /\ tables_loaded = <<>>
    /\ load_outcome = NoLoadOutcome
    /\ cr_pc = "idle"
    /\ cr_locals = NoLocals
    /\ cr_outcome = "none"
    /\ dir_before = NoDirectory
    /\ pl_pc = "idle"
    /\ items = <<>>
    /\ item = 0
    /\ loaded_fixtures = {}
    /\ restored = {}
    /\ warned = {}
    /\ derived = <<>>

ThresholdsIdle ==
    /\ th_pc = "idle"
    /\ thresholds = [cpu_disable_percent |-> 90, memory_disable_percent |-> 95,
                     cpu_enable_percent |-> 85, memory_enable_percent |-> 90]
    /\ validation_error = <<>>

\* IRISConfig(), the defaults of the configuration model
DefaultHost == "localhost"
DefaultPort == 1972
IRISConfig(h, p, ns, user, pw) ==
    [host |-> h, port |-> p, namespace |-> ns, username |-> user,
     password |-> pw]

NoGcOutcome == [kind |-> "none", connection |-> 0, exception |-> <<>>]

\* no container in use
ContainerIdle ==
    /\ gc_pc = "idle"
    /\ connection = 0
    /\ callin_enabled = FALSE
    /\ self_config =
           IRISConfig(DefaultHost, DefaultPort, "USER", "SuperUser", "SYS")
    /\ mapped = [host |-> DefaultHost, port |-> DefaultPort]
    /\ enable_callin = TRUE
    /\ original = <<>>
    /\ gc_outcome = NoGcOutcome
    /\ gc_calls = 0
    /\ gc_log = <<>>

CallerIdle ==
    /\ caller_pc = "direct"
    /\ error_msg = <<>>
    /\ max_retries = 0
    /\ reset_attempt = 0
    /\ reset_calls = <<>>
    /\ retry_sleeps = 0
    /\ returned = "none"

Init ==
    /\ CallerIdle
    /\ FixturesIdle
    /\ ThresholdsIdle
    /\ ContainerIdle
    /\ pc = "check_container"
    /\ container_name \in ContainerNames
    /\ verification_config \in VerificationConfigs
    /\ running \in SUBSET ContainerNames
    /\ account \in AccountStates
    /\ ps_stdout = {}
    /\ now = 0
    /\ start_time = 0
    /\ attempt = 0
    /\ last_error_type = "unknown"
    /\ last_error_message = <<>>
    /\ result = NoResult
    /\ caught = "none"
    /\ cmds = <<>>
    /\ probe_log = <<>>
    /\ sleeps = <<>>

\* the arguments and the environment never change during a call
Frame ==
    /\ UNCHANGED <<container_name, verification_config, running>>
    /\ UNCHANGED callerVars
    /\ UNCHANGED <<fixtureVars, thresholdVars, containerVars>>

\* an exception raised inside the try statement (lines 101, 390-440)
Raise(kind) ==
    /\ caught' = kind
    /\ IF HandlerFor(kind) = "none"
       THEN pc' = "raised" /\ result' = result
       ELSE pc' = "done" /\ result' = HandlerResult(HandlerFor(kind))

Return(r) == pc' = "done" /\ result' = r /\ caught' = caught

Goto(label) == pc' = label /\ result' = result /\ caught' = caught

\* ------------------------------------------------------------------ Step 1
\* lines 102-135: docker ps, then the `not in result.stdout` test
CheckContainer ==
    /\ pc = "check_container"
    /\ \E d \in CommandDurations : now' = now + d
    /\ \E o \in RunOutcomes :
         IF o \in Raised
         THEN /\ Raise(o)
              /\ cmds' = Append(cmds, RunRaised("ps", o))
              /\ ps_stdout' = ps_stdout
         ELSE /\ ps_stdout' = DockerPs(running, container_name)
              /\ cmds' = Append(cmds, [cmd |-> "ps", outcome |-> o,
                                       returncode |-> 0, stdout |-> {}])
              /\ IF ~InStdout(container_name, ps_stdout')
                 THEN Return(NotRunningResult)
                 ELSE Goto("primary")
    /\ Frame
    /\ UNCHANGED <<account, start_time, attempt, last_error_type,
                   last_error_message, probe_log, sleeps>>

\* ------------------------------------------------------------------ Step 2
\* lines 137-194 and 286-288: the Modify command and the test of its output
PrimaryReset ==
    /\ pc = "primary"
    /\ \E d \in CommandDurations : now' = now + d
    /\ \E o \in ExecOutcomes(running, container_name) :
         IF o \in Raised
         THEN /\ Raise(o)
              /\ cmds' = Append(cmds, RunRaised("modify", o))
              /\ UNCHANGED <<account, start_time, attempt>>
         ELSE LET proc == IF o = "ran"
                          THEN ModifyScript(account, new_password)
                          ELSE ExecFailed(account)
              IN /\ account' = proc.account
                 /\ cmds' = Append(cmds, Ran("modify", o, proc))
                 /\ IF PrimarySucceeded(proc)
                    THEN /\ start_time' = now'
                         /\ attempt' = 1
                         /\ Goto("loop_top")
                    ELSE /\ Goto("alt")
                         /\ UNCHANGED <<start_time, attempt>>
    /\ Frame
    /\ UNCHANGED <<ps_stdout, last_error_type, last_error_message,
                   probe_log, sleeps>>

\* ------------------------------------------------ the verification loop
\* lines 196-209: top of an iteration, the budget check
LoopTop ==
    /\ pc = "loop_top"
    /\ LET elapsed == now - start_time
       IN IF TimedOut(elapsed, verification_config)
          THEN Return(VerificationTimeoutResult(attempt, elapsed))
          ELSE Goto("probe")
    /\ Frame
    /\ UNCHANGED <<account, ps_stdout, now, start_time, attempt,
                   last_error_type, last_error_message, cmds, probe_log,
                   sleeps>>

\* lines 211-285: the probe of this iteration and what follows from it,
\* up to the sleep
VerifyAttempt ==
    /\ pc = "probe"
    /\ \E d \in ProbeDurations :
         /\ now' = now + d
         /\ \/ /\ probe_log' = Append(probe_log, ProbeRaised(attempt))
               /\ Raise("Exception")
               /\ UNCHANGED <<last_error_type, last_error_message>>
            \/ \E vr \in VerificationResults(attempt) :
                 LET elapsed == now' - start_time
                 IN /\ probe_log' = Append(probe_log, vr)
                    /\ IF vr.success
                       THEN /\ Return(SuccessResult(attempt, elapsed))
                            /\ UNCHANGED <<last_error_type,
                                           last_error_message>>
                       ELSE /\ last_error_type' = vr.error_type
                            /\ last_error_message' = vr.error_message
                            /\ IF FailFast(vr)
                               THEN Return(NonRetryableResult(
                                        attempt, elapsed, vr.error_type,
                                        vr.error_message))
                               ELSE IF MoreAttemptsRemain(attempt,
                                                          verification_config)
                               THEN Goto("sleep")
                               ELSE Return(ExhaustedResult(
                                        verification_config, elapsed,
                                        vr.error_type, vr.error_message))
    /\ Frame
    /\ UNCHANGED <<account, ps_stdout, start_time, attempt, cmds, sleeps>>

\* lines 262-268 and the loop's increment
BackoffSleep ==
    /\ pc = "sleep"
    /\ LET backoff_ms == calculate_backoff_ms(verification_config,
                                              BackoffIndex(attempt))
       IN /\ sleeps' = Append(sleeps, backoff_ms)
          /\ now' = now + backoff_ms
    /\ attempt' = attempt + 1
    /\ Goto("loop_top")
    /\ Frame
    /\ UNCHANGED <<account, ps_stdout, start_time, last_error_type,
                   last_error_message, cmds, probe_log>>

\* ------------------------------------------------------------------ Step 3
\* lines 290-310 and 374-388: the ChangePassword command
AltReset ==
    /\ pc = "alt"
    /\ \E d \in CommandDurations : now' = now + d
    /\ \E o \in ExecOutcomes(running, container_name) :
         IF o \in Raised
         THEN /\ Raise(o)
              /\ cmds' = Append(cmds, RunRaised("changepassword", o))
              /\ account' = account
         ELSE LET proc == IF o = "ran"
                          THEN ChangePasswordScript(account, new_password)
                          ELSE ExecFailed(account)
              IN /\ account' = proc.account
                 /\ cmds' = Append(cmds, Ran("changepassword", o, proc))
                 /\ IF AltSucceeded(proc)
                    THEN Goto("never_expires")
                    ELSE Return(BothFailedResult)
    /\ Frame
    /\ UNCHANGED <<ps_stdout, start_time, attempt, last_error_type,
                   last_error_message, probe_log, sleeps>>

\* lines 311-331: the PasswordNeverExpires command, whose result is ignored
AltNeverExpires ==
    /\ pc = "never_expires"
    /\ \E d \in CommandDurations : now' = now + d
    /\ \E o \in ExecOutcomes(running, container_name) :
         IF o \in Raised
         THEN /\ Raise(o)
              /\ cmds' = Append(cmds, RunRaised("neverexpires", o))
              /\ UNCHANGED <<account, start_time>>
         ELSE LET proc == IF o = "ran"
                          THEN NeverExpiresScript(account)
                          ELSE ExecFailed(account)
              IN /\ account' = proc.account
                 /\ cmds' = Append(cmds, Ran("neverexpires", o, proc))
                 /\ start_time' = now'
                 /\ Goto("alt_probe")
    /\ Frame
    /\ UNCHANGED <<ps_stdout, attempt, last_error_type,
                   last_error_message, probe_log, sleeps>>

\* lines 332-372: the single probe of the fallback path
AltVerify ==
    /\ pc = "alt_probe"
    /\ \E d \in ProbeDurations :
         /\ now' = now + d
         /\ \/ /\ probe_log' = Append(probe_log, ProbeRaised(1))
               /\ Raise("Exception")
            \/ \E vr \in VerificationResults(1) :
                 LET elapsed == now' - start_time
                 IN /\ probe_log' = Append(probe_log, vr)
                    /\ IF vr.success
                       THEN Return(AltSuccessResult(vr, elapsed))
                       ELSE Return(AltVerificationFailedResult(vr, elapsed))
    /\ Frame
    /\ UNCHANGED <<account, ps_stdout, start_time, attempt, last_error_type,
                   last_error_message, cmds, sleeps>>

Next ==
    \/ CheckContainer
    \/ PrimaryReset
    \/ LoopTop
    \/ VerifyAttempt
    \/ BackoffSleep
    \/ AltReset
    \/ AltNeverExpires
    \/ AltVerify

Spec == Init /\ [][Next]_vars


\* ------------------------------------------------------------ vocabulary
\* the call went through the primary path into the verification loop
InLoopPath ==
    /\ Len(cmds) = 2
    /\ cmds[2].cmd = "modify"
    /\ cmds[2].returncode = 0
    /\ "1" \in cmds[2].stdout

IsRetryableFailure(e) ==
    ~e.success /\ e.is_retryable /\ e.error_type # "raised"

IsNonRetryableFailure(e) ==
    ~e.success /\ ~e.is_retryable /\ e.error_type # "raised"

LastProbe == probe_log[Len(probe_log)]

\* every probe but the last failed with a retryable error
EarlierProbesRetryable ==
    \A i \in 1..(Len(probe_log) - 1) : IsRetryableFailure(probe_log[i])

\* ------------------------------------------------------------------ claims
\* C1: in the verification loop, retryable failures on attempts 1..k
\* followed by a success on attempt k+1 make the call return success with
\* verification_attempts = k+1 after exactly k backoff sleeps; the call has
\* returned, so nothing is slept or probed after the successful attempt.
C1_SuccessAfterKFailures ==
    (/\ InLoopPath
     /\ probe_log # <<>>
     /\ LastProbe.success
     /\ EarlierProbesRetryable)
    => /\ pc = "done"
       /\ result.success
       /\ result.verification_attempts = Len(probe_log)
       /\ Len(sleeps) = Len(probe_log) - 1

C1_Witness ==
    /\ pc = "done"
    /\ InLoopPath
    /\ result.success
    /\ Len(probe_log) = 3
    /\ IsRetryableFailure(probe_log[1])
    /\ IsRetryableFailure(probe_log[2])
    /\ Len(sleeps) = 2

\* C2: in the verification loop, a probe classified non-retryable on
\* attempt n ends the call with a failure carrying verification_attempts = n
\* and that probe's error classification; no sleep follows it (only the n-1
\* sleeps between the earlier attempts happened) and no further probe is
\* made, whatever max_retries is.
C2_NonRetryableFailsFast ==
    (/\ InLoopPath
     /\ probe_log # <<>>
     /\ IsNonRetryableFailure(LastProbe)
     /\ EarlierProbesRetryable)
    => /\ pc = "done"
       /\ ~result.success
       /\ result.verification_attempts = Len(probe_log)
       /\ LastProbe.attempt_number = Len(probe_log)
       /\ result.error_type = LastProbe.error_type
       /\ Len(sleeps) = Len(probe_log) - 1

C2_Witness ==
    /\ pc = "done"
    /\ InLoopPath
    /\ Len(probe_log) = 1
    /\ IsNonRetryableFailure(probe_log[1])
    /\ verification_config.max_retries >= 3
    /\ result.verification_attempts = 1
    /\ sleeps = <<>>

\* C3: when an iteration of the verification loop starts with the elapsed
\* time at or over the timeout budget, that step returns a failure with
\* error_type "timeout" whose verification_attempts is the number of probes
\* already made; nothing is raised and no probe is made.
C3_BudgetReachedReturnsTimeout ==
    [][(pc = "loop_top" /\ now - start_time >= verification_config.timeout_ms)
       => /\ pc' = "done"
          /\ ~result'.success
          /\ result'.error_type = "timeout"
          /\ result'.verification_attempts = Len(probe_log)
          /\ probe_log' = probe_log
          /\ caught' = "none"]_vars

C3_Witness ==
    /\ pc = "done"
    /\ result.message = "Password verification timed out"
    /\ result.verification_attempts >= 1
    /\ result.verification_attempts = Len(probe_log)

\* C4: when all max_retries probes of the verification loop failed with
\* retryable errors, the call returns a failure with the error_type and the
\* error message of the last probe and verification_attempts = max_retries.
C4_ExhaustedCarriesLastError ==
    (/\ InLoopPath
     /\ Len(probe_log) = verification_config.max_retries
     /\ \A i \in 1..Len(probe_log) : IsRetryableFailure(probe_log[i]))
    => /\ pc = "done"
       /\ ~result.success
       /\ result.error_type = LastProbe.error_type
       /\ result.detail = LastProbe.error_message
       /\ result.verification_attempts = verification_config.max_retries

C4_Witness ==
    /\ pc = "done"
    /\ InLoopPath
    /\ verification_config.max_retries >= 3
    /\ Len(probe_log) = verification_config.max_retries
    /\ \A i \in 1..Len(probe_log) : IsRetryableFailure(probe_log[i])
    /\ probe_log[1].error_type # LastProbe.error_type
    /\ result.error_type = LastProbe.error_type


\* a repair command succeeded by the test the code applies to it: the
\* Modify command exited 0 and wrote 1 (line 182), or the ChangePassword
\* command exited 0 (line 310)
RepairSucceeded ==
    \E i \in 1..Len(cmds) :
        \/ /\ cmds[i].cmd = "modify"
           /\ cmds[i].returncode = 0
           /\ "1" \in cmds[i].stdout
        \/ /\ cmds[i].cmd = "changepassword"
           /\ cmds[i].returncode = 0

C6_NeverRaises ==
    /\ pc # "raised"
    /\ pc = "done" => /\ result # NoResult
                      /\ result.message # "none"

C6_Witness ==
    /\ pc = "done"
    /\ caught = "Exception"
    /\ probe_log # <<>>
    /\ LastProbe.error_type = "raised"
    /\ result = ExceptionResult

\* C7: initial_backoff_ms = 100, exponential_backoff = True, max_retries = 5
\* and the probes [access_denied retryable, access_denied retryable,
\* success]: the call returns success with verification_attempts = 3 after
\* exactly two sleeps, of 100 ms and then 200 ms.
C7_TwoFailuresThenSuccess ==
    (/\ InLoopPath
     /\ verification_config.max_retries = 5
     /\ verification_config.initial_backoff_ms = 100
     /\ verification_config.exponential_backoff
     /\ Len(probe_log) = 3
     /\ IsRetryableFailure(probe_log[1])
     /\ probe_log[1].error_type = "access_denied"
     /\ IsRetryableFailure(probe_log[2])
     /\ probe_log[2].error_type = "access_denied"
     /\ probe_log[3].success)
    => /\ pc = "done"
       /\ result.success
       /\ result.verification_attempts = 3
       /\ sleeps = <<100, 200>>

C7_Witness ==
    /\ pc = "done"
    /\ InLoopPath
    /\ verification_config.max_retries = 5
    /\ verification_config.initial_backoff_ms = 100
    /\ verification_config.exponential_backoff
    /\ Len(probe_log) = 3
    /\ probe_log[1].error_type = "access_denied"
    /\ probe_log[1].is_retryable
    /\ probe_log[2].error_type = "access_denied"
    /\ probe_log[2].is_retryable
    /\ probe_log[3].success
    /\ result.success
    /\ sleeps = <<100, 200>>

\* C8: once the repair commands have run in the service, the account exists
\* with the requested password, its must-change-password flag cleared and
\* its password set never to expire, whether or not the account existed
\* before.
C8_RepairEnsuresAccount ==
    (/\ pc = "done"
     /\ Len(cmds) >= 2
     /\ cmds[2].cmd = "modify"
     /\ cmds[2].outcome = "ran"
     /\ \A i \in 1..Len(cmds) : cmds[i].outcome \notin Raised \cup {"exec_failed"})
    => /\ account.exists
       /\ account.Password = new_password
       /\ ~account.ChangePassword
       /\ account.PasswordNeverExpires

\* C9 as stated: the failure kind (error_type) reported for a command
\* timeout is reported for no other failure, and likewise the one reported
\* for a missing docker binary.
C9_DistinctErrorTypes ==
    (pc = "done" /\ ~result.success)
    => /\ (result.error_type = TimeoutExpiredResult.error_type
             => caught = "TimeoutExpired")
       /\ (result.error_type = FileNotFoundResult.error_type
             => caught = "FileNotFoundError")

\* C9 amended: a command timeout and a missing docker binary are each
\* reported with a message of their own, which no other outcome of the call
\* carries, and with error_types that differ from each other ("timeout" and
\* "unknown").
C9_DistinctMessages ==
    pc = "done"
    => /\ (caught = "TimeoutExpired"
             <=> result.message = "Password reset timed out")
       /\ (caught = "FileNotFoundError"
             <=> result.message = "Docker command not found")
       /\ (caught = "TimeoutExpired" => result.error_type = "timeout")
       /\ (caught = "FileNotFoundError" => result.error_type = "unknown")
       /\ (caught # "none" => ~result.success)

C9_Witness ==
    /\ pc = "done"
    /\ caught = "FileNotFoundError"
    /\ Len(cmds) = 1
    /\ result.message = "Docker command not found"
    /\ result.error_type = "unknown"

FairSpec == Init /\ [][Next]_vars /\ WF_vars(Next)

\* C12: every call of reset_password eventually returns a result, having
\* made at most max_retries probes and at most max_retries - 1 sleeps; a
\* spawn that times out ends the call with a timeout-classified failure.
C12_CallTerminates ==
    /\ <>(pc = "done")
    /\ [](/\ Len(probe_log) <= verification_config.max_retries
          /\ Len(sleeps) <= verification_config.max_retries - 1
          /\ (caught = "TimeoutExpired"
                => pc = "done" /\ ~result.success
                   /\ result.error_type = "timeout"))

C12_Witness ==
    /\ pc = "done"
    /\ verification_config.max_retries >= 3
    /\ Len(probe_log) = verification_config.max_retries
    /\ Len(sleeps) = verification_config.max_retries - 1


\* ------------------------------------------------ reset_password_if_needed
\* str.lower() on the words the model's messages are made of
Lower(word) ==
    CASE word = "Password" -> "password"
      [] word = "Connection" -> "connection"
      [] word = "Error:" -> "error:"
      [] OTHER -> word

LowerAll(msg) == [i \in 1..Len(msg) |-> Lower(msg[i])]

\* lines 41-46
password_change_indicators ==
    {<<"password", "change", "required">>,
     <<"password", "expired">>,
     <<"password_change_required">>,
     <<"user", "must", "change", "password">>}

\* lines 48-49
detect_password_change_required(error_message) ==
    \E indicator \in password_change_indicators :
        IsSubstring(indicator, LowerAll(error_message))

\* the errors handed to reset_password_if_needed
ErrorMessages ==
    {<<"Error:", "Password", "change", "required">>,
     <<"Connection", "failed:", "password", "expired">>,
     <<"Connection", "refused">>,
     <<>>}

\* VerificationConfig(): what line 189 builds when no config is passed
DefaultVerificationConfig ==
    [max_retries |-> 3, timeout_ms |-> 1000, initial_backoff_ms |-> 100,
     exponential_backoff |-> TRUE]

\* the account states the caller's runs start from
CallerAccountStates ==
    {NoAccount,
     [exists |-> TRUE, Password |-> "old", ChangePassword |-> TRUE,
      PasswordNeverExpires |-> FALSE]}

\* the state when reset_password_if_needed is entered
InitIfNeeded ==
    /\ FixturesIdle
    /\ ThresholdsIdle
    /\ ContainerIdle
    /\ caller_pc = "enter"
    /\ error_msg \in ErrorMessages
    /\ max_retries \in 0..MaxResetRetries
    /\ reset_attempt = 0
    /\ reset_calls = <<>>
    /\ retry_sleeps = 0
    /\ returned = "none"
    /\ pc = "idle"
    /\ container_name = db
    /\ verification_config = DefaultVerificationConfig
    /\ running \in {{}, {db}}
    /\ account \in CallerAccountStates
    /\ ps_stdout = {}
    /\ now = 0
    /\ start_time = 0
    /\ attempt = 0
    /\ last_error_type = "unknown"
    /\ last_error_message = <<>>
    /\ result = NoResult
    /\ caught = "none"
    /\ cmds = <<>>
    /\ probe_log = <<>>
    /\ sleeps = <<>>

\* lines 474-481: the detection
IfNeededEnter ==
    /\ caller_pc = "enter"
    /\ IF ~detect_password_change_required(error_msg)
       THEN caller_pc' = "returned" /\ returned' = "False"
       ELSE caller_pc' = "loop" /\ returned' = returned
    /\ UNCHANGED <<error_msg, max_retries, reset_attempt, reset_calls,
                   retry_sleeps>>
    /\ UNCHANGED resetVars
    /\ UNCHANGED <<fixtureVars, thresholdVars, containerVars>>

\* line 484: for attempt in range(max_retries)
InRange_inclusive(att, max) == att <= max
InRange(att, max) == att < max

\* lines 484-489 and 503: the top of an iteration up to the entry of
\* reset_password(container_name=container_name), or the loop's end
IfNeededCall ==
    /\ caller_pc = "loop"
    /\ IF InRange(reset_attempt, max_retries)
       THEN /\ caller_pc' = "in_call"
            /\ returned' = returned
            /\ IF reset_attempt > 0
               THEN now' = now + 3000 /\ retry_sleeps' = retry_sleeps + 1
               ELSE now' = now /\ retry_sleeps' = retry_sleeps
            /\ pc' = "check_container"
            /\ verification_config' = DefaultVerificationConfig
            /\ ps_stdout' = {}
            /\ start_time' = 0
            /\ attempt' = 0
            /\ last_error_type' = "unknown"
            /\ last_error_message' = <<>>
            /\ result' = NoResult
            /\ caught' = "none"
            /\ cmds' = <<>>
            /\ probe_log' = <<>>
            /\ sleeps' = <<>>
            /\ UNCHANGED <<container_name, running, account>>
       ELSE /\ caller_pc' = "returned"
            /\ returned' = "False"
            /\ retry_sleeps' = retry_sleeps
            /\ UNCHANGED resetVars
    /\ UNCHANGED <<error_msg, max_retries, reset_attempt, reset_calls>>
    /\ UNCHANGED <<fixtureVars, thresholdVars, containerVars>>

\* lines 489-501: success, message = reset_password(...) and its test
IfNeededAfterCall ==
    /\ caller_pc = "in_call"
    /\ pc = "done"
    /\ reset_calls' = Append(reset_calls, result.success)
    /\ IF result.success
       THEN /\ caller_pc' = "returned"
            /\ returned' = "True"
            /\ reset_attempt' = reset_attempt
       ELSE /\ caller_pc' = "loop"
            /\ returned' = returned
            /\ reset_attempt' = reset_attempt + 1
    /\ pc' = "idle"
    /\ UNCHANGED <<error_msg, max_retries, retry_sleeps>>
    /\ UNCHANGED <<fixtureVars, thresholdVars, containerVars>>
    /\ UNCHANGED <<container_name, verification_config, running, account,
                   ps_stdout, now, start_time, attempt, last_error_type,
                   last_error_message, result, caught, cmds, probe_log,
                   sleeps>>

NextIfNeeded ==
    \/ IfNeededEnter
    \/ IfNeededCall
    \/ IfNeededAfterCall
    \/ CheckContainer
    \/ PrimaryReset
    \/ LoopTop
    \/ VerifyAttempt
    \/ BackoffSleep
    \/ AltReset
    \/ AltNeverExpires
    \/ AltVerify

SpecIfNeeded == InitIfNeeded /\ [][NextIfNeeded]_vars

\* C11: for an error recognised as a password-change requirement,
\* reset_password_if_needed calls reset_password at most max_retries times,
\* makes no call after one that succeeded, returns True exactly when a call
\* succeeded, and returns False only after max_retries failed calls.
C11_ResetRetries ==
    detect_password_change_required(error_msg)
    => /\ Len(reset_calls) <= max_retries
       /\ \A i \in 1..(Len(reset_calls) - 1) : ~reset_calls[i]
       /\ (reset_calls # <<>> /\ reset_calls[Len(reset_calls)])
            => caller_pc = "returned" /\ returned = "True"
       /\ caller_pc = "returned"
            => /\ returned \in {"True", "False"}
               /\ (returned = "True"
                     <=> \E i \in 1..Len(reset_calls) : reset_calls[i])
               /\ (returned = "False"
                     => Len(reset_calls) = max_retries)

C11_Witness ==
    /\ caller_pc = "returned"
    /\ detect_password_change_required(error_msg)
    /\ max_retries = 2
    /\ reset_calls = <<FALSE, TRUE>>
    /\ returned = "True"
    /\ retry_sleeps = 1


\* ------------------------------------------------ DATFixtureLoader
\* the other subsystems at rest while the fixture code runs
FixtureFrame ==
    UNCHANGED <<resetVars, callerVars, thresholdVars, containerVars>>

ResetIdle ==
    /\ pc = "idle"
    /\ container_name = db
    /\ verification_config = DefaultVerificationConfig
    /\ running = {}
    /\ account = NoAccount
    /\ ps_stdout = {}
    /\ now = 0
    /\ start_time = 0
    /\ attempt = 0
    /\ last_error_type = "unknown"
    /\ last_error_message = <<>>
    /\ result = NoResult
    /\ caught = "none"
    /\ cmds = <<>>
    /\ probe_log = <<>>
    /\ sleeps = <<>>

\* FixtureValidator.validate_fixture: the errors of a fixture directory
ValidationErrors(dir, check) ==
    IF ~dir.exists THEN {"directory not found"}
    ELSE IF dir.manifest = <<>> THEN {"manifest not found"}
    ELSE IF dir.manifest[1] = TruncatedManifest THEN {"malformed manifest"}
    ELSE IF dir.dat = <<>> THEN {"file not found"}
    ELSE IF check /\ calculate_sha256(dir.dat[1]) # dir.manifest[1].checksum
         THEN {"checksum mismatch"}
    ELSE {}

\* line 132: the flag load_fixture hands to validate_fixture
ValidateArgument_skipped(flag) == FALSE
ValidateArgument(flag) == flag

\* lines 85-88: validate_fixture raises when the validator found errors
validate_fixture_raises(dir, check) == ValidationErrors(dir, check) # {}

\* an entry of sql_log: a command, its argument and the service's answer
Sent(cmd, arg, raised, row) ==
    [cmd |-> cmd, arg |-> arg, raised |-> raised, row |-> row]

\* the rows a status-writing command can answer with (<<>> is no row)
StatusRows ==
    {<<>>, <<<<"SUCCESS">>>>, <<<<"FAILED:", "ERROR", "#5001">>>>}

\* lines 182 and 320: not result_row or "SUCCESS" not in str(result_row[0])
StatusFailed(row) == row = <<>> \/ ~IsSubstring(<<"SUCCESS">>, row[1])

LoadRaise(kind) ==
    /\ load_outcome' = [kind |-> kind, success |-> FALSE, namespace |-> <<>>,
                        tables_loaded |-> <<>>]
    /\ ld_pc' = "done"

\* line 135: namespace = target_namespace or manifest.namespace
TargetOrManifest(target, m) == IF target # <<>> THEN target ELSE m.namespace

\* lines 129-152: validation, the choice of namespace, the file check
LoadValidate ==
    /\ ld_pc = "validate"
    /\ IF validate_fixture_raises(fixture_dir,
                                  ValidateArgument(validate_checksum))
       THEN /\ LoadRaise("FixtureValidationError")
            /\ UNCHANGED <<manifest, namespace>>
       ELSE /\ manifest' = fixture_dir.manifest
            /\ namespace' = TargetOrManifest(target_namespace,
                                             fixture_dir.manifest[1])
            /\ IF fixture_dir.dat = <<>>
               THEN LoadRaise("FixtureLoadError")
               ELSE ld_pc' = "restore" /\ load_outcome' = load_outcome
    /\ UNCHANGED <<fixture_dir, namespaces, sql_log, validate_checksum,
                   target_namespace, tables_loaded, cr_pc, cr_locals,
                   cr_outcome, dir_before, pl_pc, items, item,
                   loaded_fixtures, restored, warned, derived>>
    /\ FixtureFrame

\* lines 155-215: the restore command and the test of its answer
LoadRestore ==
    /\ ld_pc = "restore"
    /\ \E raised \in BOOLEAN, row \in StatusRows :
         /\ raised => row = <<>>
         /\ sql_log' = Append(sql_log,
                              Sent("RestoreNamespace", namespace, raised, row))
         /\ IF raised \/ StatusFailed(row)
            THEN /\ LoadRaise("FixtureLoadError")
                 /\ UNCHANGED <<namespaces, restored>>
            ELSE /\ ld_pc' = "set_namespace"
                 /\ load_outcome' = load_outcome
                 /\ namespaces' = namespaces \cup {namespace}
                 /\ restored' = IF pl_pc = "idle" THEN restored
                                ELSE restored \cup {<<item, namespace>>}
    /\ tables_loaded' = <<>>
    /\ UNCHANGED <<fixture_dir, validate_checksum, target_namespace, manifest,
                   namespace, cr_pc, cr_locals, cr_outcome, dir_before,
                   pl_pc, items, item, loaded_fixtures, warned, derived>>
    /\ FixtureFrame

\* lines 219-224: a cursor in the target namespace
LoadSetNamespace ==
    /\ ld_pc = "set_namespace"
    /\ \E raised \in BOOLEAN :
         /\ sql_log' = Append(sql_log,
                              Sent("SET NAMESPACE", namespace, raised, <<>>))
         /\ IF raised
            THEN LoadRaise("FixtureLoadError")
            ELSE ld_pc' = "verify" /\ load_outcome' = load_outcome
    /\ UNCHANGED <<fixture_dir, namespaces, validate_checksum,
                   target_namespace, manifest, namespace, tables_loaded,
                   cr_pc, cr_locals, cr_outcome, dir_before, pl_pc, items,
                   item, loaded_fixtures, restored, warned, derived>>
    /\ FixtureFrame

\* lines 233-237: a row count that differs from the manifest's is let pass
MismatchIsError_strict(row_count, expected) == row_count # expected
MismatchIsError(row_count, expected) == FALSE

\* lines 227-252: one iteration over manifest.tables
LoadVerifyTable ==
    /\ ld_pc = "verify"
    /\ Len(tables_loaded) < Len(manifest[1].tables)
    /\ LET table_info == manifest[1].tables[Len(tables_loaded) + 1]
       IN \E raised \in BOOLEAN,
             row_count \in {table_info.row_count, table_info.row_count + 1} :
            /\ raised => row_count = table_info.row_count
            /\ sql_log' = Append(sql_log,
                                 Sent("COUNT", table_info.name, raised,
                                      IF raised THEN <<>> ELSE <<row_count>>))
            /\ IF raised \/ MismatchIsError(row_count, table_info.row_count)
               THEN /\ LoadRaise("FixtureLoadError")
                    /\ tables_loaded' = tables_loaded
               ELSE /\ tables_loaded' = Append(tables_loaded, table_info.name)
                    /\ UNCHANGED <<ld_pc, load_outcome>>
    /\ UNCHANGED <<fixture_dir, namespaces, validate_checksum,
                   target_namespace, manifest, namespace, cr_pc, cr_locals,
                   cr_outcome, dir_before, pl_pc, items, item,
                   loaded_fixtures, restored, warned, derived>>
    /\ FixtureFrame

\* lines 254-281: the cursor is closed and the LoadResult built
LoadReturn ==
    /\ ld_pc = "verify"
    /\ Len(tables_loaded) = Len(manifest[1].tables)
    /\ \E raised \in BOOLEAN :
         /\ sql_log' = Append(sql_log, Sent("close", <<>>, raised, <<>>))
         /\ IF raised
            THEN LoadRaise("FixtureLoadError")
            ELSE /\ load_outcome' = [kind |-> "LoadResult", success |-> TRUE,
                                     namespace |-> namespace,
                                     tables_loaded |-> tables_loaded]
                 /\ ld_pc' = "done"
    /\ UNCHANGED <<fixture_dir, namespaces, validate_checksum,
                   target_namespace, manifest, namespace, tables_loaded,
                   cr_pc, cr_locals, cr_outcome, dir_before, pl_pc, items,
                   item, loaded_fixtures, restored, warned, derived>>
    /\ FixtureFrame

\* the state when load_fixture is entered
InitLoader ==
    /\ CallerIdle
    /\ ResetIdle
    /\ ThresholdsIdle
    /\ ContainerIdle
    /\ fixture_dir \in FixtureDirectories
    /\ namespaces = {}
    /\ sql_log = <<>>
    /\ ld_pc = "validate"
    /\ validate_checksum \in BOOLEAN
    /\ target_namespace \in {<<>>, TEST_NS}
    /\ manifest = <<>>
    /\ namespace = <<>>
    /\ tables_loaded = <<>>
    /\ load_outcome = NoLoadOutcome
    /\ cr_pc = "idle"
    /\ cr_locals = NoLocals
    /\ cr_outcome = "none"
    /\ dir_before = NoDirectory
    /\ pl_pc = "idle"
    /\ items = <<>>
    /\ item = 0
    /\ loaded_fixtures = {}
    /\ restored = {}
    /\ warned = {}
    /\ derived = <<>>

NextLoader ==
    \/ LoadValidate
    \/ LoadRestore
    \/ LoadSetNamespace
    \/ LoadVerifyTable
    \/ LoadReturn

SpecLoader == InitLoader /\ [][NextLoader]_vars


\* ---- the loader's claims
RestoreSent ==
    \E i \in 1..Len(sql_log) : sql_log[i].cmd = "RestoreNamespace"

FilesPresent(dir) == dir.exists /\ dir.manifest # <<>> /\ dir.dat # <<>>

ChecksumMatches(dir) ==
    calculate_sha256(dir.dat[1]) = dir.manifest[1].checksum

OneByteDiffers(a, b) ==
    /\ Len(a) = Len(b)
    /\ Cardinality({i \in 1..Len(a) : a[i] # b[i]}) = 1

\* the snapshot differs in one byte from the one the manifest describes
OneByteMutated(dir) ==
    /\ FilesPresent(dir)
    /\ \E c \in DatContents :
         /\ OneByteDiffers(c, dir.dat[1])
         /\ dir.manifest[1].checksum = calculate_sha256(c)

\* C13: with checksum validation enabled, the restore command is sent only
\* after a validation that succeeded; for a manifest and a snapshot that are
\* there, validation succeeds exactly when the checksum recomputed over the
\* snapshot equals the manifest's; a snapshot one byte away from the one the
\* manifest describes makes load_fixture fail with no restore command sent.
C13_ChecksumGatesRestore ==
    validate_checksum =>
        /\ RestoreSent =>
             /\ ~validate_fixture_raises(fixture_dir, TRUE)
             /\ ChecksumMatches(fixture_dir)
        /\ (ld_pc # "validate" /\ FilesPresent(fixture_dir))
             => (load_outcome.kind # "FixtureValidationError"
                   <=> ChecksumMatches(fixture_dir))
        /\ OneByteMutated(fixture_dir)
             => /\ ~RestoreSent
                /\ ld_pc # "validate"
                     => /\ ld_pc = "done"
                        /\ load_outcome.kind = "FixtureValidationError"

C13_Witness ==
    /\ validate_checksum
    /\ OneByteMutated(fixture_dir)
    /\ Len(fixture_dir.dat[1]) = 2
    /\ ld_pc = "done"
    /\ load_outcome.kind = "FixtureValidationError"
    /\ sql_log = <<>>

RestoreSucceeded ==
    \E i \in 1..Len(sql_log) :
        /\ sql_log[i].cmd = "RestoreNamespace"
        /\ ~sql_log[i].raised
        /\ ~StatusFailed(sql_log[i].row)

TableAnswered(name) ==
    \E i \in 1..Len(sql_log) :
        /\ sql_log[i].cmd = "COUNT"
        /\ sql_log[i].arg = name
        /\ ~sql_log[i].raised

EveryTableAnswers ==
    /\ manifest # <<>>
    /\ \A k \in 1..Len(manifest[1].tables) :
         TableAnswered(manifest[1].tables[k].name)

Completed(cmd) ==
    \E i \in 1..Len(sql_log) : sql_log[i].cmd = cmd /\ ~sql_log[i].raised

ManifestTableNames ==
    [k \in 1..Len(manifest[1].tables) |-> manifest[1].tables[k].name]

\* C14 as stated: load_fixture returns a successful LoadResult if and only
\* if the restore succeeded and every table of the manifest answered its
\* COUNT(*).
C14_SuccessIffRestoredAndCounted ==
    ld_pc = "done"
    => (load_outcome.success <=> RestoreSucceeded /\ EveryTableAnswers)

\* C14 amended: load_fixture returns a successful LoadResult if and only if
\* the restore succeeded and the whole verification step ran without an
\* exception: the switch to the target namespace, a COUNT(*) of every table
\* of the manifest, and the closing of the cursor.  tables_loaded is then the
\* manifest's table names in manifest order; a failure after a successful
\* restore always follows a command that raised, never a row count that
\* differs; a table whose COUNT(*) raises makes the call raise
\* FixtureLoadError.
C14_SuccessIffVerified ==
    ld_pc = "done"
    => /\ load_outcome.success
            <=> /\ RestoreSucceeded
                /\ Completed("SET NAMESPACE")
                /\ EveryTableAnswers
                /\ Completed("close")
       /\ load_outcome.success
            => /\ load_outcome.kind = "LoadResult"
               /\ load_outcome.tables_loaded = ManifestTableNames
               /\ load_outcome.namespace = namespace
       /\ (~load_outcome.success /\ RestoreSucceeded)
            => sql_log[Len(sql_log)].raised
       /\ (\E i \in 1..Len(sql_log) :
               sql_log[i].cmd = "COUNT" /\ sql_log[i].raised)
            => load_outcome.kind = "FixtureLoadError"

\* two tables, the first of which answers a row count other than the
\* manifest's, and a successful result
C14_Witness ==
    /\ ld_pc = "done"
    /\ load_outcome.success
    /\ Len(load_outcome.tables_loaded) = 2
    /\ \E i \in 1..Len(sql_log) :
         /\ sql_log[i].cmd = "COUNT"
         /\ sql_log[i].row # <<manifest[1].tables[1].row_count>>
         /\ sql_log[i].arg = manifest[1].tables[1].name


\* ------------------------------------------------ FixtureCreator
\* the namespace create_fixture and refresh_fixture are asked to export
source_namespace == SRC

\* lines 211-303, export_namespace_to_dat: every way the call can end, as
\* the commands sent, the snapshot file left behind and whether it raised.
\* A backup that fails may leave a partial file; a backup that answers
\* SUCCESS may leave no file (lines 272-284).
ExportResults(dat) ==
    LET ns_query(raised, n) ==
            Sent("SYS.Namespace", source_namespace, raised,
                 IF raised THEN <<>> ELSE <<n>>)
        backup(raised, row) ==
            Sent("BackupNamespace", source_namespace, raised, row)
        ns_count == IF source_namespace \in namespaces THEN 1 ELSE 0
        partial == {dat} \cup {<<c>> : c \in {b \in DatContents : Len(b) = 1}}
    IN  {[raises |-> TRUE, dat |-> dat, log |-> <<ns_query(TRUE, 0)>>]}
        \cup (IF ns_count = 0
              THEN {[raises |-> TRUE, dat |-> dat,
                     log |-> <<ns_query(FALSE, 0)>>]}
              ELSE {[raises |-> TRUE, dat |-> d,
                     log |-> <<ns_query(FALSE, ns_count), backup(TRUE, <<>>)>>]
                        : d \in partial}
                   \cup {[raises |-> TRUE, dat |-> d,
                          log |-> <<ns_query(FALSE, ns_count),
                                    backup(FALSE, row)>>]
                            : d \in partial,
                              row \in {r \in StatusRows : StatusFailed(r)}}
                   \cup {[raises |-> d = <<>>, dat |-> d,
                          log |-> <<ns_query(FALSE, ns_count),
                                    backup(FALSE, row)>>]
                            : d \in {<<>>} \cup {<<c>> : c \in DatContents},
                              row \in {r \in StatusRows : ~StatusFailed(r)}})

\* lines 344-393, get_namespace_tables: the inventory or an exception;
\* a table that cannot be counted is left out (lines 373-376)
InventoryResults ==
    {[raises |-> TRUE, tables |-> <<>>,
      log |-> <<Sent("SET NAMESPACE", source_namespace, TRUE, <<>>)>>]}
    \cup {[raises |-> FALSE, tables |-> t,
           log |-> <<Sent("SET NAMESPACE", source_namespace, FALSE, <<>>),
                     Sent("TABLES", source_namespace, FALSE, <<>>)>>]
             : t \in TableLists}

\* FixtureManifest.to_file: the file a write leaves behind, and whether it
\* raised; a failed write leaves the old file or an incomplete one
WriteResults(old, m) ==
    {[raises |-> FALSE, file |-> <<m>>],
     [raises |-> TRUE, file |-> old],
     [raises |-> TRUE, file |-> <<TruncatedManifest>>]}

\* FixtureManifest.from_file raises on a file that is not a manifest
from_file_raises(file) == file = <<>> \/ file[1] = TruncatedManifest

CreatorRaise(kind, step) ==
    /\ cr_outcome' = kind
    /\ cr_pc' = "done"
    /\ cr_locals' = [cr_locals EXCEPT !.failed = step]

CreatorFrame ==
    /\ UNCHANGED <<namespaces, ld_pc, validate_checksum, target_namespace,
                   manifest, namespace, tables_loaded, load_outcome,
                   dir_before, pl_pc, items, item, loaded_fixtures, restored,
                   warned, derived>>
    /\ FixtureFrame

\* line 116: output_path.exists()
OutputExists_only_fixtures(dir) == dir.exists /\ dir.manifest # <<>>
OutputExists(dir) == dir.exists

\* lines 113-144: the refusal to overwrite, then mkdir(exist_ok=False)
CreateCheck ==
    /\ cr_pc = "create"
    /\ IF OutputExists(fixture_dir)
       THEN /\ CreatorRaise("FileExistsError", "exists")
            /\ UNCHANGED fixture_dir
       ELSE \E mkdir_raises \in BOOLEAN :
              IF mkdir_raises \/ fixture_dir.exists
              THEN /\ CreatorRaise("FixtureCreateError", "mkdir")
                   /\ UNCHANGED fixture_dir
              ELSE /\ fixture_dir' = EmptyDirectory
                   /\ cr_pc' = "create_export"
                   /\ cr_locals' = [cr_locals EXCEPT !.created = TRUE]
                   /\ UNCHANGED cr_outcome
    /\ UNCHANGED sql_log
    /\ CreatorFrame

\* lines 152-155: output_path.rmdir() removes an empty directory only,
\* and its failure is swallowed
rmdir(dir) ==
    IF dir.manifest = <<>> /\ dir.backup = <<>> /\ dir.dat = <<>>
    THEN NoDirectory
    ELSE dir

\* lines 146-156: the export, with the cleanup of its failure
CreateExport ==
    /\ cr_pc = "create_export"
    /\ \E r \in ExportResults(fixture_dir.dat) :
         /\ sql_log' = sql_log \o r.log
         /\ IF r.raises
            THEN /\ fixture_dir' = rmdir([fixture_dir EXCEPT !.dat = r.dat])
                 /\ CreatorRaise("FixtureCreateError", "export")
            ELSE /\ fixture_dir' = [fixture_dir EXCEPT !.dat = r.dat]
                 /\ cr_pc' = "create_inventory"
                 /\ UNCHANGED <<cr_outcome, cr_locals>>
    /\ CreatorFrame

\* lines 158-162: the version (never raises) and the table inventory
CreateInventory ==
    /\ cr_pc = "create_inventory"
    /\ \E r \in InventoryResults, v \in {"2024.1", "unknown"} :
         /\ sql_log' = sql_log \o r.log
         /\ IF r.raises
            THEN CreatorRaise("FixtureCreateError", "inventory")
            ELSE /\ cr_locals' = [cr_locals EXCEPT !.tables = r.tables,
                                                   !.iris_version = v]
                 /\ cr_pc' = "create_checksum"
                 /\ UNCHANGED cr_outcome
    /\ UNCHANGED fixture_dir
    /\ CreatorFrame

\* line 165: the checksum of the exported file, or a read error
CreateChecksum ==
    /\ cr_pc = "create_checksum"
    /\ \E read_raises \in BOOLEAN :
         IF read_raises
         THEN CreatorRaise("OSError", "checksum")
         ELSE /\ cr_locals' =
                   [cr_locals EXCEPT
                      !.checksum = calculate_checksum(fixture_dir.dat[1])]
              /\ cr_pc' = "create_manifest"
              /\ UNCHANGED cr_outcome
    /\ UNCHANGED <<fixture_dir, sql_log>>
    /\ CreatorFrame

\* lines 167-186: the manifest is built and written
CreateManifest ==
    /\ cr_pc = "create_manifest"
    /\ LET m == FixtureManifest(source_namespace, cr_locals.checksum,
                                cr_locals.tables, cr_locals.iris_version, 1)
       IN \E w \in WriteResults(fixture_dir.manifest, m) :
            /\ fixture_dir' = [fixture_dir EXCEPT !.manifest = w.file]
            /\ IF w.raises
               THEN CreatorRaise("OSError", "manifest write")
               ELSE /\ cr_locals' = [cr_locals EXCEPT !.manifest = <<m>>]
                    /\ cr_outcome' = "returned"
                    /\ cr_pc' = "done"
    /\ UNCHANGED sql_log
    /\ CreatorFrame


\* a step inside the try block of lines 456-479 raised: the handler runs
RefreshFails(step) ==
    /\ cr_pc' = "refresh_handler"
    /\ cr_locals' = [cr_locals EXCEPT !.failed = step]
    /\ UNCHANGED cr_outcome

\* lines 420-452: the existence checks, the manifest, its backup
RefreshCheck ==
    /\ cr_pc = "refresh"
    /\ IF ~fixture_dir.exists \/ fixture_dir.manifest = <<>>
       THEN /\ CreatorRaise("FileNotFoundError", "missing")
            /\ UNCHANGED fixture_dir
       ELSE IF from_file_raises(fixture_dir.manifest)
       THEN /\ CreatorRaise("ManifestError", "load manifest")
            /\ UNCHANGED fixture_dir
       ELSE \E w \in WriteResults(fixture_dir.backup, fixture_dir.manifest[1]) :
              /\ fixture_dir' = [fixture_dir EXCEPT !.backup = w.file]
              /\ IF w.raises
                 THEN CreatorRaise("OSError", "backup write")
                 ELSE /\ cr_locals' =
                           [cr_locals EXCEPT !.manifest = fixture_dir.manifest,
                                             !.backed_up = TRUE]
                      /\ cr_pc' = "refresh_unlink"
                      /\ UNCHANGED cr_outcome
    /\ UNCHANGED sql_log
    /\ CreatorFrame

\* lines 457-459: the old snapshot file is removed
RefreshUnlink ==
    /\ cr_pc = "refresh_unlink"
    /\ IF fixture_dir.dat = <<>>
       THEN /\ cr_pc' = "refresh_export"
            /\ UNCHANGED <<fixture_dir, cr_locals, cr_outcome>>
       ELSE \E unlink_raises \in BOOLEAN :
              IF unlink_raises
              THEN RefreshFails("unlink") /\ UNCHANGED fixture_dir
              ELSE /\ fixture_dir' = [fixture_dir EXCEPT !.dat = <<>>]
                   /\ cr_pc' = "refresh_export"
                   /\ UNCHANGED <<cr_locals, cr_outcome>>
    /\ UNCHANGED sql_log
    /\ CreatorFrame

\* line 462: the export
RefreshExport ==
    /\ cr_pc = "refresh_export"
    /\ \E r \in ExportResults(fixture_dir.dat) :
         /\ sql_log' = sql_log \o r.log
         /\ fixture_dir' = [fixture_dir EXCEPT !.dat = r.dat]
         /\ IF r.raises
            THEN RefreshFails("export")
            ELSE /\ cr_pc' = "refresh_inventory"
                 /\ UNCHANGED <<cr_outcome, cr_locals>>
    /\ CreatorFrame

\* line 465: the table inventory
RefreshInventory ==
    /\ cr_pc = "refresh_inventory"
    /\ \E r \in InventoryResults :
         /\ sql_log' = sql_log \o r.log
         /\ IF r.raises
            THEN RefreshFails("inventory")
            ELSE /\ cr_locals' = [cr_locals EXCEPT !.tables = r.tables]
                 /\ cr_pc' = "refresh_checksum"
                 /\ UNCHANGED cr_outcome
    /\ UNCHANGED fixture_dir
    /\ CreatorFrame

\* line 468: the checksum of the new file, or a read error
RefreshChecksum ==
    /\ cr_pc = "refresh_checksum"
    /\ \E read_raises \in BOOLEAN :
         IF read_raises
         THEN RefreshFails("checksum")
         ELSE /\ cr_locals' =
                   [cr_locals EXCEPT
                      !.checksum = calculate_checksum(fixture_dir.dat[1])]
              /\ cr_pc' = "refresh_manifest"
              /\ UNCHANGED cr_outcome
    /\ UNCHANGED <<fixture_dir, sql_log>>
    /\ CreatorFrame

\* lines 470-479: tables, checksum, created_at and iris_version of the
\* loaded manifest are replaced and the manifest is written
RefreshManifest ==
    /\ cr_pc = "refresh_manifest"
    /\ \E v \in {"2024.1", "unknown"} :
         LET m == [cr_locals.manifest[1] EXCEPT
                      !.tables = cr_locals.tables,
                      !.checksum = cr_locals.checksum,
                      !.created_at = 1,
                      !.iris_version = v]
         IN \E w \in WriteResults(fixture_dir.manifest, m) :
              /\ fixture_dir' = [fixture_dir EXCEPT !.manifest = w.file]
              /\ IF w.raises
                 THEN RefreshFails("manifest write")
                 ELSE /\ cr_locals' = [cr_locals EXCEPT !.manifest = <<m>>,
                                                        !.iris_version = v]
                      /\ cr_outcome' = "returned"
                      /\ cr_pc' = "done"
    /\ UNCHANGED sql_log
    /\ CreatorFrame

\* line 483: if backup_file.exists()
HandlerRestores_never(dir) == FALSE
HandlerRestores(dir) == dir.backup # <<>>

\* lines 481-500: the backup is written back over manifest.json and the
\* failure re-raised as FixtureCreateError; an exception of the write-back
\* itself leaves the handler in place of that error
RefreshHandler ==
    /\ cr_pc = "refresh_handler"
    /\ cr_pc' = "done"
    /\ IF HandlerRestores(fixture_dir)
       THEN IF from_file_raises(fixture_dir.backup)
            THEN /\ cr_outcome' = "ManifestError"
                 /\ cr_locals' = [cr_locals EXCEPT !.failed = "restore"]
                 /\ UNCHANGED fixture_dir
            ELSE \E w \in WriteResults(fixture_dir.manifest,
                                       fixture_dir.backup[1]) :
                   /\ fixture_dir' = [fixture_dir EXCEPT !.manifest = w.file]
                   /\ IF w.raises
                      THEN /\ cr_outcome' = "OSError"
                           /\ cr_locals' =
                                [cr_locals EXCEPT !.failed = "restore"]
                      ELSE /\ cr_outcome' = "FixtureCreateError"
                           /\ UNCHANGED cr_locals
       ELSE /\ cr_outcome' = "FixtureCreateError"
            /\ UNCHANGED <<fixture_dir, cr_locals>>
    /\ UNCHANGED sql_log
    /\ CreatorFrame

\* a directory that an earlier refresh left its backup file in
WithStaleBackup(dir) ==
    [dir EXCEPT !.backup =
        <<FixtureManifest(SRC, calculate_sha256(<<1>>), <<>>, "2023.1", 0)>>]

\* a fixture whose manifest was written for another namespace than the
\* one refresh_fixture is now asked to export
FromOtherNamespace(dir) ==
    [dir EXCEPT !.manifest = <<[dir.manifest[1] EXCEPT !.namespace = TEST_NS]>>]

\* the state when create_fixture or refresh_fixture is entered
InitCreator ==
    /\ CallerIdle
    /\ ResetIdle
    /\ ThresholdsIdle
    /\ ContainerIdle
    /\ fixture_dir \in FixtureDirectories
                       \cup {WithStaleBackup(d) :
                               d \in {e \in FixtureDirectories : e.exists}}
                       \cup {FromOtherNamespace(d) :
                               d \in {e \in FixtureDirectories :
                                         e.manifest # <<>>}}
    /\ dir_before = fixture_dir
    /\ namespaces \in {{}, {source_namespace}}
    /\ sql_log = <<>>
    /\ cr_pc \in {"create", "refresh"}
    /\ cr_locals = [NoLocals EXCEPT !.op = cr_pc]
    /\ cr_outcome = "none"
    /\ ld_pc = "idle"
    /\ validate_checksum = TRUE
    /\ target_namespace = <<>>
    /\ manifest = <<>>
    /\ namespace = <<>>
    /\ tables_loaded = <<>>
    /\ load_outcome = NoLoadOutcome
    /\ pl_pc = "idle"
    /\ items = <<>>
    /\ item = 0
    /\ loaded_fixtures = {}
    /\ restored = {}
    /\ warned = {}
    /\ derived = <<>>

NextCreator ==
    \/ CreateCheck
    \/ CreateExport
    \/ CreateInventory
    \/ CreateChecksum
    \/ CreateManifest
    \/ RefreshCheck
    \/ RefreshUnlink
    \/ RefreshExport
    \/ RefreshInventory
    \/ RefreshChecksum
    \/ RefreshManifest
    \/ RefreshHandler

SpecCreator == InitCreator /\ [][NextCreator]_vars

\* ---- the creator's claims
ExportSent ==
    \E i \in 1..Len(sql_log) : sql_log[i].cmd = "BackupNamespace"

\* C15: create_fixture on an output directory that exists raises
\* FileExistsError, leaves every file of the directory as it was and sends
\* nothing to the service.
C15_ExistingDirectoryRefused ==
    (cr_locals.op = "create" /\ dir_before.exists)
    => /\ fixture_dir = dir_before
       /\ sql_log = <<>>
       /\ ~ExportSent
       /\ cr_pc = "done" => cr_outcome = "FileExistsError"

C15_Witness ==
    /\ cr_locals.op = "create"
    /\ cr_pc = "done"
    /\ dir_before.exists
    /\ dir_before.manifest = <<>>
    /\ dir_before.dat # <<>>
    /\ cr_outcome = "FileExistsError"

\* C16: when create_fixture fails after it created the output directory,
\* the directory is gone when the error reaches the caller.
C16_FailedCreateRemovesDirectory ==
    (/\ cr_locals.op = "create"
     /\ cr_pc = "done"
     /\ cr_locals.created
     /\ cr_outcome # "returned")
    => ~fixture_dir.exists

RefreshSteps == {"unlink", "export", "inventory", "checksum", "manifest write"}

RECURSIVE Replace(_, _, _)
Replace(str, old, new) ==
    IF Len(str) < Len(old) THEN str
    ELSE IF SubSeq(str, 1, Len(old)) = old
         THEN new \o Replace(SubSeq(str, Len(old) + 1, Len(str)), old, new)
         ELSE <<str[1]>> \o Replace(Tail(str), old, new)

\* line 63: the [:64] of the derived name
NamespaceLimit == 64

Truncate(str, n) == SubSeq(str, 1, IF Len(str) < n THEN Len(str) ELSE n)

\* line 61: item.nodeid.replace("::", "_").replace("/", "_")
test_id(nodeid) ==
    Replace(Replace(nodeid, <<":", ":">>, <<"_">>), <<"/">>, <<"_">>)

\* line 63: namespace or f"PYTEST_{worker_id}_{test_id}"[:64]
unique_namespace(marker_namespace, worker_id, nodeid) ==
    IF marker_namespace # <<>> THEN marker_namespace
    ELSE Truncate(<<"P", "Y", "T", "E", "S", "T", "_">> \o worker_id
                    \o <<"_">> \o test_id(nodeid),
                  NamespaceLimit)

\* line 62: PYTEST_XDIST_WORKER, or "master" without xdist
WorkerIds == {<<"m", "a", "s", "t", "e", "r">>, <<"g", "w", "0">>}

\* a test file under deeply nested directories
DeepPath == [i \in 1..60 |-> IF i % 6 = 0 THEN "/" ELSE "d"]

\* node ids of tests: a path, "::", a test name
NodeIds ==
    {<<"a", "/", "b", ":", ":", "t">>,
     <<"a", "_", "b", ":", ":", "t">>,
     DeepPath \o <<":", ":", "x">>,
     DeepPath \o <<":", ":", "y">>}

\* a marked test: its worker, its node id, the marker's namespace keyword
Items ==
    [worker_id : WorkerIds, nodeid : NodeIds,
     marker_namespace : {<<>>, TEST_NS}]

\* the fixture the tests' markers name: one table, a snapshot that matches
\* the manifest's checksum or has a byte changed
MarkedFixtures ==
    {[exists |-> TRUE,
      manifest |-> <<FixtureManifest(SRC, calculate_sha256(<<1>>),
                                     <<TableInfo("RAG.Entities", 2)>>,
                                     "2024.1", 0)>>,
      backup |-> <<>>,
      dat |-> <<<<b>>>>] : b \in Bytes}

PluginFrame ==
    /\ UNCHANGED <<fixture_dir, cr_pc, cr_locals, cr_outcome, dir_before,
                   items>>
    /\ FixtureFrame

\* lines 44-72: the namespace is derived and load_fixture entered
PluginSetup ==
    /\ pl_pc = "setup"
    /\ LET it == items[item]
           ns == unique_namespace(it.marker_namespace, it.worker_id,
                                  it.nodeid)
       IN /\ derived' = Append(derived, ns)
          /\ target_namespace' = ns
    /\ validate_checksum' = TRUE
    /\ ld_pc' = "validate"
    /\ manifest' = <<>>
    /\ namespace' = <<>>
    /\ tables_loaded' = <<>>
    /\ load_outcome' = NoLoadOutcome
    /\ pl_pc' = "loading"
    /\ UNCHANGED <<namespaces, sql_log, item, loaded_fixtures, restored,
                   warned>>
    /\ PluginFrame

\* lines 65-86: the result is registered under the node id, or the test
\* is failed and nothing is registered
PluginSetupDone ==
    /\ pl_pc = "loading"
    /\ ld_pc = "done"
    /\ loaded_fixtures' =
         IF load_outcome.success
         THEN {e \in loaded_fixtures : e.nodeid # items[item].nodeid}
              \cup {[nodeid |-> items[item].nodeid,
                     namespace |-> load_outcome.namespace]}
         ELSE loaded_fixtures
    /\ ld_pc' = "idle"
    /\ pl_pc' = "teardown"
    /\ UNCHANGED <<namespaces, sql_log, validate_checksum, target_namespace,
                   manifest, namespace, tables_loaded, load_outcome, item,
                   restored, warned, derived>>
    /\ PluginFrame

\* loader.py lines 303-365 with delete_namespace=True: the answers of the
\* service to Config.Namespaces.Delete
CleanupResults(ns) ==
    {Sent("DeleteNamespace", ns, TRUE, <<>>)}
    \cup {Sent("DeleteNamespace", ns, FALSE, row) : row \in StatusRows}

\* lines 107-109: finally: del _loaded_fixtures[item.nodeid]
Unregister_unless_failed(registry, registered, failed) ==
    IF failed THEN registry ELSE registry \ registered
Unregister(registry, registered, failed) == registry \ registered

\* lines 89-109: the registered namespace is deleted; a failure of the
\* deletion is a warning; the registry entry goes in either case
PluginTeardown ==
    /\ pl_pc = "teardown"
    /\ LET registered ==
             {e \in loaded_fixtures : e.nodeid = items[item].nodeid}
       IN IF registered = {}
          THEN UNCHANGED <<namespaces, sql_log, loaded_fixtures, warned>>
          ELSE \E e \in registered : \E r \in CleanupResults(e.namespace) :
                 /\ sql_log' = Append(sql_log, r)
                 /\ IF r.raised \/ StatusFailed(r.row)
                    THEN /\ warned' = warned \cup {item}
                         /\ UNCHANGED namespaces
                    ELSE /\ namespaces' = namespaces \ {e.namespace}
                         /\ UNCHANGED warned
                 /\ loaded_fixtures' =
                      Unregister(loaded_fixtures, registered,
                                 r.raised \/ StatusFailed(r.row))
    /\ pl_pc' = "torn_down"
    /\ UNCHANGED <<ld_pc, validate_checksum, target_namespace, manifest,
                   namespace, tables_loaded, load_outcome, item, restored,
                   derived>>
    /\ PluginFrame

\* the runner goes on to the next marked test
PluginNextItem ==
    /\ pl_pc = "torn_down"
    /\ item < Len(items)
    /\ item' = item + 1
    /\ pl_pc' = "setup"
    /\ UNCHANGED <<namespaces, sql_log, ld_pc, validate_checksum,
                   target_namespace, manifest, namespace, tables_loaded,
                   load_outcome, loaded_fixtures, restored, warned, derived>>
    /\ PluginFrame

\* a session of two marked tests against one service
InitPlugin ==
    /\ CallerIdle
    /\ ResetIdle
    /\ ThresholdsIdle
    /\ ContainerIdle
    /\ fixture_dir \in MarkedFixtures
    /\ namespaces = {}
    /\ sql_log = <<>>
    /\ ld_pc = "idle"
    /\ validate_checksum = TRUE
    /\ target_namespace = <<>>
    /\ manifest = <<>>
    /\ namespace = <<>>
    /\ tables_loaded = <<>>
    /\ load_outcome = NoLoadOutcome
    /\ cr_pc = "idle"
    /\ cr_locals = NoLocals
    /\ cr_outcome = "none"
    /\ dir_before = NoDirectory
    /\ pl_pc = "setup"
    /\ items \in [1..2 -> Items]
    /\ item = 1
    /\ loaded_fixtures = {}
    /\ restored = {}
    /\ warned = {}
    /\ derived = <<>>

NextPlugin ==
    \/ PluginSetup
    \/ LoadValidate
    \/ LoadRestore
    \/ LoadSetNamespace
    \/ LoadVerifyTable
    \/ LoadReturn
    \/ PluginSetupDone
    \/ PluginTeardown
    \/ PluginNextItem

SpecPlugin == InitPlugin /\ [][NextPlugin]_vars

\* ---- the plugin's claims
\* C18: with no namespace in the marker, two tests whose (worker id, node
\* id) pairs differ are given different namespace names by setup.
C18_DerivedNamespacesDiffer ==
    \A i, j \in 1..Len(derived) :
        (/\ i # j
         /\ items[i].marker_namespace = <<>>
         /\ items[j].marker_namespace = <<>>
         /\ <<items[i].worker_id, items[i].nodeid>>
              # <<items[j].worker_id, items[j].nodeid>>)
        => derived[i] # derived[j]

\* C19: once teardown of a test has completed, every namespace that the
\* test's setup restored is gone from the service.
C19_RestoredNamespaceDeleted ==
    pl_pc = "torn_down"
    => \A r \in restored : r[1] = item => r[2] \notin namespaces


\* ------------------------------------------------ ResourceThresholds
\* the percentages thresholds are built from (90.0 is written 90)
Percentages == {80, 85, 90, 95}

ResourceThresholds ==
    [cpu_disable_percent : Percentages, memory_disable_percent : Percentages,
     cpu_enable_percent : Percentages, memory_enable_percent : Percentages]

\* a pair of thresholds without hysteresis
NoHysteresis_equal_allowed(enable, disable) == enable > disable
NoHysteresis(enable, disable) == enable >= disable

ThrashingMessage(resource) ==
    <<resource, "enable", "threshold", "must", "be", "less", "than",
      "disable", "threshold", "to", "prevent", "thrashing">>

\* ResourceThresholds.validate: the message of the ValueError it raises,
\* <<>> when the thresholds are valid
validate(t) ==
    IF NoHysteresis(t.cpu_enable_percent, t.cpu_disable_percent)
    THEN ThrashingMessage("cpu")
    ELSE IF NoHysteresis(t.memory_enable_percent, t.memory_disable_percent)
    THEN ThrashingMessage("memory")
    ELSE <<>>

\* thresholds.validate() is called
Validate ==
    /\ th_pc = "validate"
    /\ validation_error' = validate(thresholds)
    /\ th_pc' = "done"
    /\ UNCHANGED thresholds
    /\ UNCHANGED <<resetVars, callerVars, fixtureVars, containerVars>>

InitThresholds ==
    /\ CallerIdle
    /\ ResetIdle
    /\ FixturesIdle
    /\ ContainerIdle
    /\ th_pc = "validate"
    /\ thresholds \in ResourceThresholds
    /\ validation_error = <<>>

NextThresholds == Validate

SpecThresholds == InitThresholds /\ [][NextThresholds]_vars

\* test_resource_monitoring_api.py line 221: "thrashing" in error_msg.lower()
MentionsThrashing(msg) == IsSubstring(<<"thrashing">>, LowerAll(msg))

\* C20: thresholds in which a resource's enable percentage is not strictly
\* less than its disable percentage fail validation with an error that
\* mentions thrashing; thresholds that pass validation have enable < disable
\* for CPU and for memory.
C20_HysteresisValidated ==
    th_pc = "done"
    => /\ (\/ thresholds.cpu_enable_percent >= thresholds.cpu_disable_percent
           \/ thresholds.memory_enable_percent
                >= thresholds.memory_disable_percent)
            => /\ validation_error # <<>>
               /\ MentionsThrashing(validation_error)
       /\ validation_error = <<>>
            => /\ thresholds.cpu_enable_percent
                    < thresholds.cpu_disable_percent
               /\ thresholds.memory_enable_percent
                    < thresholds.memory_disable_percent

\* the thresholds of the contract test: cpu 90/90, memory at its defaults
C20_Witness ==
    /\ th_pc = "done"
    /\ thresholds = [cpu_disable_percent |-> 90, memory_disable_percent |-> 95,
                     cpu_enable_percent |-> 90, memory_enable_percent |-> 90]
    /\ MentionsThrashing(validation_error)


\* ------------------------------------------------ reset_password, again
\* a step of the verification loop that starts (and finishes) a probe
LoopProbeStep ==
    /\ pc = "probe"
    /\ Len(probe_log') = Len(probe_log) + 1

\* C21: in the verification loop a probe is started only while the time
\* elapsed since the loop started is below the timeout budget; this holds
\* for the first iteration and for every iteration that follows a sleep.
C21_NoProbeOnceBudgetReached ==
    [][LoopProbeStep
         => now - start_time < verification_config.timeout_ms]_vars

\* the budget ran out during a backoff sleep: as many sleeps as probes,
\* and the call returned the timeout failure instead of probing again
C21_Witness ==
    /\ pc = "done"
    /\ InLoopPath
    /\ result.error_type = "timeout"
    /\ Len(sleeps) >= 1
    /\ Len(probe_log) = Len(sleeps)
    /\ EarlierProbesRetryable
    /\ IsRetryableFailure(LastProbe)

\* a step of the verification loop that sleeps
BackoffStep == Len(sleeps') = Len(sleeps) + 1

\* C22: in the verification loop a backoff sleep follows only a retryable
\* failure on an attempt below max_retries; when all max_retries attempts
\* fail retryably there are exactly max_retries probes and max_retries - 1
\* sleeps, none of them after the last attempt.
C22_SleepOnlyBeforeAnotherAttempt ==
    /\ [][BackoffStep
            => /\ probe_log # <<>>
               /\ IsRetryableFailure(LastProbe)
               /\ LastProbe.attempt_number = attempt
               /\ attempt < verification_config.max_retries
               /\ Len(sleeps) = attempt - 1]_vars
    /\ []((/\ pc = "done"
           /\ Len(probe_log) = verification_config.max_retries
           /\ \A i \in 1..Len(probe_log) : IsRetryableFailure(probe_log[i]))
          => /\ Len(sleeps) = verification_config.max_retries - 1
             /\ ~result.success
             /\ result.verification_attempts
                  = verification_config.max_retries)

C22_Witness ==
    /\ pc = "done"
    /\ verification_config.max_retries = 3
    /\ Len(probe_log) = 3
    /\ \A i \in 1..3 : IsRetryableFailure(probe_log[i])
    /\ Len(sleeps) = 2
    /\ ~result.success

\* ------------------------------------------- IRISContainer.get_connection
MaxCalls == 2

\* the host and the mapped port a started container can have
MappedEndpoints ==
    [host : {DefaultHost}, port : {DefaultPort, 32768}]

\* the accounts IRISContainer.community(...) can be configured with
ConfiguredUsers == {"SuperUser", "_SYSTEM"}

\* get_config (lines 254-279): the host and the port are taken from the
\* started container, unless asking for them raises
get_config(cfg, m, answered) ==
    IF answered THEN [cfg EXCEPT !.host = m.host, !.port = m.port] ELSE cfg

\* what the ghost log records
NoTarget == [username |-> "", password |-> "", host |-> "", port |-> 0]
Target(cfg) ==
    [username |-> cfg.username, password |-> cfg.password,
     host |-> cfg.host, port |-> cfg.port]
Event(ev, target) == [ev |-> ev, target |-> target]

\* the account reset_password repairs and the endpoint it verifies when
\* reset_password_if_needed calls it with container_name alone
ResetTarget ==
    [username |-> username, password |-> new_password,
     host |-> hostname, port |-> port]

\* the exceptions a connection attempt raises
ConnectionErrors == ErrorMessages \ {<<>>}

GcFrame ==
    /\ UNCHANGED <<fixtureVars, thresholdVars>>
    /\ UNCHANGED mapped

GcReturn(conn) ==
    /\ gc_pc' = "returned"
    /\ gc_outcome' = [kind |-> "returned", connection |-> conn,
                      exception |-> <<>>]

GcRaise(e) ==
    /\ gc_pc' = "returned"
    /\ gc_outcome' = [kind |-> "raised", connection |-> 0, exception |-> e]

\* line 219: if self._connection is not None
IsCached_never(conn) == FALSE
IsCached(conn) == conn # 0

\* lines 219-225: the cached connection, or on to the CallIn service
GcEntry ==
    /\ gc_pc = "entry"
    /\ IF IsCached(connection)
       THEN GcReturn(connection)
       ELSE /\ gc_pc' = IF enable_callin /\ ~callin_enabled
                        THEN "callin" ELSE "config"
            /\ gc_outcome' = gc_outcome
    /\ UNCHANGED <<connection, callin_enabled, self_config, enable_callin,
                   original, gc_calls, gc_log>>
    /\ UNCHANGED <<resetVars, callerVars>>
    /\ GcFrame

\* lines 225-233 and enable_callin_service: the docker exec
\* command; only exit status 0 with CALLIN_ENABLED in the output sets the flag
GcCallIn ==
    /\ gc_pc = "callin"
    /\ \E enabled \in BOOLEAN : callin_enabled' = enabled
    /\ gc_log' = Append(gc_log, Event("callin", NoTarget))
    /\ gc_pc' = "config"
    /\ UNCHANGED <<connection, self_config, enable_callin, original,
                   gc_outcome, gc_calls>>
    /\ UNCHANGED <<resetVars, callerVars>>
    /\ GcFrame

\* line 236: config = self.get_config()
GcConfig ==
    /\ gc_pc = "config"
    /\ \E answered \in BOOLEAN :
         self_config' = get_config(self_config, mapped, answered)
    /\ gc_pc' = "connect"
    /\ UNCHANGED <<connection, callin_enabled, enable_callin, original,
                   gc_outcome, gc_calls, gc_log>>
    /\ UNCHANGED <<resetVars, callerVars>>
    /\ GcFrame

\* lines 238-247: the first attempt; on an exception
\* reset_password_if_needed(e, container_name=...) is entered
GcConnect ==
    /\ gc_pc = "connect"
    /\ \/ /\ connection' = gc_calls
          /\ GcReturn(connection')
          /\ gc_log' = Append(gc_log, Event("connect", Target(self_config)))
          /\ UNCHANGED original
          /\ UNCHANGED <<resetVars, callerVars>>
       \/ \E e \in ConnectionErrors :
            /\ original' = e
            /\ gc_pc' = "remediate"
            /\ gc_log' = Append(Append(gc_log,
                                 Event("connect", Target(self_config))),
                                Event("remediate", ResetTarget))
            /\ caller_pc' = "enter"
            /\ error_msg' = e
            /\ max_retries' = 1
            /\ reset_attempt' = 0
            /\ reset_calls' = <<>>
            /\ retry_sleeps' = 0
            /\ returned' = "none"
            /\ UNCHANGED <<connection, gc_outcome>>
            /\ UNCHANGED resetVars
    /\ UNCHANGED <<callin_enabled, self_config, enable_callin, gc_calls>>
    /\ GcFrame

\* line 247: if reset_password_if_needed(...)
Remediated(r) == r = "True"

\* lines 247-252: after remediation, the retry or the original exception
GcAfterRemediation ==
    /\ gc_pc = "remediate"
    /\ caller_pc = "returned"
    /\ IF Remediated(returned)
       THEN gc_pc' = "retry" /\ gc_outcome' = gc_outcome
       ELSE GcRaise(original)
    /\ caller_pc' = "direct"
    /\ ps_stdout' = {}
    /\ now' = 0
    /\ start_time' = 0
    /\ attempt' = 0
    /\ last_error_type' = "unknown"
    /\ last_error_message' = <<>>
    /\ result' = NoResult
    /\ caught' = "none"
    /\ cmds' = <<>>
    /\ probe_log' = <<>>
    /\ sleeps' = <<>>
    /\ UNCHANGED <<pc, container_name, verification_config, running, account>>
    /\ UNCHANGED <<error_msg, max_retries, reset_attempt, reset_calls,
                   retry_sleeps, returned>>
    /\ UNCHANGED <<connection, callin_enabled, self_config, enable_callin,
                   original, gc_calls, gc_log>>
    /\ GcFrame

\* lines 249-250: the one retry; its exception leaves the function
GcRetry ==
    /\ gc_pc = "retry"
    /\ gc_log' = Append(gc_log, Event("connect", Target(self_config)))
    /\ \/ /\ connection' = gc_calls
          /\ GcReturn(connection')
       \/ \E e \in ConnectionErrors :
            /\ GcRaise(e)
            /\ UNCHANGED connection
    /\ UNCHANGED <<callin_enabled, self_config, enable_callin, original,
                   gc_calls>>
    /\ UNCHANGED <<resetVars, callerVars>>
    /\ GcFrame

\* the test calls get_connection again
GcNextCall ==
    /\ gc_pc = "returned"
    /\ gc_calls < MaxCalls
    /\ gc_calls' = gc_calls + 1
    /\ gc_pc' = "entry"
    /\ enable_callin' \in BOOLEAN
    /\ original' = <<>>
    /\ gc_outcome' = NoGcOutcome
    /\ gc_log' = <<>>
    /\ UNCHANGED <<connection, callin_enabled, self_config>>
    /\ UNCHANGED <<resetVars, callerVars>>
    /\ GcFrame

\* a constructed container (lines 85-88, 119-125) at its first
\* get_connection call
InitContainer ==
    /\ FixturesIdle
    /\ ThresholdsIdle
    /\ CallerIdle
    /\ pc = "idle"
    /\ container_name = db
    /\ verification_config = DefaultVerificationConfig
    /\ running \in {{}, {db}}
    /\ account \in CallerAccountStates
    /\ ps_stdout = {}
    /\ now = 0
    /\ start_time = 0
    /\ attempt = 0
    /\ last_error_type = "unknown"
    /\ last_error_message = <<>>
    /\ result = NoResult
    /\ caught = "none"
    /\ cmds = <<>>
    /\ probe_log = <<>>
    /\ sleeps = <<>>
    /\ gc_pc = "entry"
    /\ connection = 0
    /\ callin_enabled = FALSE
    /\ \E u \in ConfiguredUsers :
         self_config = IRISConfig(DefaultHost, DefaultPort, "USER", u, "SYS")
    /\ mapped \in MappedEndpoints
    /\ enable_callin \in BOOLEAN
    /\ original = <<>>
    /\ gc_outcome = NoGcOutcome
    /\ gc_calls = 1
    /\ gc_log = <<>>

NextContainer ==
    \/ GcEntry
    \/ GcCallIn
    \/ GcConfig
    \/ GcConnect
    \/ GcAfterRemediation
    \/ GcRetry
    \/ GcNextCall
    \/ IfNeededEnter
    \/ IfNeededCall
    \/ IfNeededAfterCall
    \/ CheckContainer
    \/ PrimaryReset
    \/ LoopTop
    \/ VerifyAttempt
    \/ BackoffSleep
    \/ AltReset
    \/ AltNeverExpires
    \/ AltVerify

SpecContainer == InitContainer /\ [][NextContainer]_vars

\* the events of one kind the call in progress has logged
EventsOf(ev) == {i \in 1..Len(gc_log) : gc_log[i].ev = ev}
FirstAttemptRaised == original # <<>>
RemediationSucceeded == FirstAttemptRaised /\ returned = "True"
CachedAtEntry == connection # 0 /\ connection < gc_calls

\* C23: when the first attempt raises and remediation reports success, the
\* connection is attempted exactly once more and what that attempt yields
\* is cached and returned; when remediation does not succeed the original
\* exception propagates and nothing is cached; a cached connection is what
\* every later call returns, with no connection attempt, CallIn command or
\* remediation, and it is never replaced
C23_RetryOnceThenCache ==
    /\ [](gc_pc = "returned" =>
           /\ RemediationSucceeded =>
                /\ Cardinality(EventsOf("connect")) = 2
                /\ Cardinality(EventsOf("remediate")) = 1
                /\ \/ /\ gc_outcome.kind = "returned"
                      /\ gc_outcome.connection = gc_calls
                      /\ connection = gc_calls
                   \/ /\ gc_outcome.kind = "raised"
                      /\ connection = 0
           /\ (FirstAttemptRaised /\ ~RemediationSucceeded) =>
                /\ Cardinality(EventsOf("connect")) = 1
                /\ gc_outcome.kind = "raised"
                /\ gc_outcome.exception = original
                /\ connection = 0
           /\ CachedAtEntry =>
                /\ gc_log = <<>>
                /\ gc_outcome.kind = "returned"
                /\ gc_outcome.connection = connection)
    /\ [][connection # 0 => connection' = connection]_vars

\* a second call answered from the cache that the first call filled by
\* its retry after a successful remediation
C23_Witness ==
    /\ gc_pc = "returned"
    /\ gc_calls = 2
    /\ CachedAtEntry
    /\ returned = "True"
    /\ gc_outcome.connection = 1
    /\ gc_log = <<>>

\* C27: when remediation reports success, the account it repaired and the
\* endpoint it verified are the ones every later connection attempt of the
\* call uses: the username and password of the container's configuration
\* and the container's host and mapped port
C27_RetryUsesRepairedAccount ==
    RemediationSucceeded =>
        \A i \in EventsOf("remediate") : \A j \in EventsOf("connect") :
            j > i => gc_log[j].target = gc_log[i].target

\* ------------------------------------------------- the plugin, again
CleanupFailed(r) == r.raised \/ StatusFailed(r.row)
TeardownStep == pl_pc = "teardown" /\ pl_pc' # "teardown"

\* C24: the registry holds an entry for a test only between that test's
\* successful setup and the end of its teardown; teardown removes the entry
\* even when cleanup_fixture fails; a cleanup failure becomes a warning and
\* the teardown hook ends normally
C24_RegistryEntryLifetime ==
    /\ [](\A e \in loaded_fixtures :
            /\ pl_pc = "teardown"
            /\ e.nodeid = items[item].nodeid
            /\ load_outcome.success
            /\ e.namespace = load_outcome.namespace)
    /\ [][TeardownStep =>
            /\ pl_pc' = "torn_down"
            /\ loaded_fixtures' = {}
            /\ (loaded_fixtures # {} =>
                  /\ Len(sql_log') = Len(sql_log) + 1
                  /\ (item \in warned') = CleanupFailed(sql_log'[Len(sql_log')]))
            /\ (loaded_fixtures = {} => warned' = warned)]_vars

\* a teardown whose cleanup failed: the entry is gone and a warning issued
C24_Witness ==
    /\ pl_pc = "torn_down"
    /\ load_outcome.success
    /\ item \in warned
    /\ sql_log # <<>>
    /\ CleanupFailed(sql_log[Len(sql_log)])
    /\ loaded_fixtures = {}

C26_FallbackRetriesLikePrimary ==
    (/\ pc = "done"
     /\ RepairSucceeded
     /\ ~result.success
     /\ probe_log # <<>>
     /\ \A i \in 1..Len(probe_log) : IsRetryableFailure(probe_log[i])
     /\ now - start_time < verification_config.timeout_ms)
    => /\ Len(probe_log) = verification_config.max_retries
       /\ Len(sleeps) = verification_config.max_retries - 1

\* ------------------------------------------------ the creator, again
\* a directory the validator accepts: both files, a manifest that parses,
\* and the checksum of the snapshot equal to the manifest's
ValidFixture(dir) ==
    /\ FilesPresent(dir)
    /\ ~from_file_raises(dir.manifest)
    /\ ChecksumMatches(dir)

RefreshFailed ==
    /\ cr_pc = "done"
    /\ cr_locals.op = "refresh"
    /\ cr_outcome \notin {"none", "returned"}

\* C28: after refresh_fixture failed on a valid fixture, with the manifest
\* as it was before the call, the directory is still a valid fixture: the
\* snapshot file the manifest names exists and its recomputed checksum
\* equals the manifest's
C28_FailedRefreshKeepsFixtureValid ==
    (/\ RefreshFailed
     /\ ValidFixture(dir_before)
     /\ fixture_dir.manifest = dir_before.manifest)
    => ValidFixture(fixture_dir)

RefreshReturned ==
    /\ cr_pc = "done"
    /\ cr_locals.op = "refresh"
    /\ cr_outcome = "returned"

\* C29: after a successful refresh_fixture(fixture_dir, namespace) the
\* manifest describes what was exported: its namespace field names the
\* namespace passed, its table list is the inventory of that namespace and
\* its checksum that of the exported file
C29_RefreshedManifestDescribesExport ==
    RefreshReturned =>
        /\ fixture_dir.manifest[1].namespace = source_namespace
        /\ fixture_dir.manifest[1].tables = cr_locals.tables
        /\ fixture_dir.manifest[1].checksum = cr_locals.checksum
        /\ ChecksumMatches(fixture_dir)

\* a create_fixture call that got past the refusal and made its directory
CreateUnderWay == cr_locals.op = "create" /\ cr_locals.created

\* C30: create_fixture writes manifest.json last: in every state during or
\* after a create_fixture call that made the output directory, if
\* manifest.json exists then the call is at its end and IRIS.DAT exists,
\* and a manifest that was written completely carries the checksum of that
\* file, computed after the export
C30_ManifestWrittenLast ==
    (CreateUnderWay /\ fixture_dir.manifest # <<>>) =>
        /\ cr_pc = "done"
        /\ fixture_dir.exists
        /\ fixture_dir.dat # <<>>
        /\ cr_locals.checksum = calculate_sha256(fixture_dir.dat[1])
        /\ ~from_file_raises(fixture_dir.manifest) =>
             /\ cr_outcome = "returned"
             /\ ChecksumMatches(fixture_dir)
             /\ fixture_dir.manifest[1].checksum = cr_locals.checksum

C30_Witness ==
    /\ CreateUnderWay
    /\ cr_pc = "done"
    /\ cr_outcome = "returned"
    /\ ~dir_before.exists
    /\ ValidFixture(fixture_dir)
    /\ Len(fixture_dir.dat[1]) = MaxDatLen

====
